---- MODULE Spec2Model ----
(***************************************************************************)
(* Syndesi protocol engine: the frame dispatcher (Network), the payload    *)
(* interpreter chain (FrameManager) and the device identifier (SyndesiID). *)
(***************************************************************************)
EXTENDS Integers, Sequences, FiniteSets, TLC

----------------------------------------------------------------------------
(* Bounds of the model *)

\* longest pending-reply list explored
MaxPending == 3

----------------------------------------------------------------------------
(* Program constants *)

NULL == 0

\* Frame::ErrorCode
NO_ERROR == 0
NO_INTERPETER == 1
INVALID_PAYLOAD == 2

\* Frame::networkHeader_size, Frame::payloadLength_size,
\* Frame::errorCode_size and Frame::header_size
networkHeader_size == 1
payloadLength_size == 2
errorCode_size == 2
header_size == networkHeader_size + payloadLength_size

\* Settings::default_syndesi_port
default_syndesi_port == 2608

\* value of SyndesiID::_port when no port was ever given (the code tests
\* "port > 0" before storing a port)
NoPort == 0

\* a port set with Settings::setIPPort or given in an address text
CustomPort == default_syndesi_port + 1

Ports == {default_syndesi_port, CustomPort}

\* SyndesiID::address_type_t; "OTHER" stands for every value that is
\* neither IPV4 nor IPV6
AddressTypes == {"IPV4", "IPV6", "OTHER"}

\* abstract contents of SyndesiID::descriptor (the address bytes)
Descriptors == {1, 2}

\* a device identifier (first segment only: the pending list never looks
\* at the chained segments)
SyndesiID == [address_type : AddressTypes, descriptor : Descriptors,
              port : Ports \cup {NoPort}]

\* total length of the frames handed to Network::request: the header and
\* a payload of one byte
FrameLengths == {header_size + 1}

\* what IController::write can return for a frame of that length
WriteResults(length) == {length - 1, length}

\* identifiers handed to Network::request
RequestIDs ==
    {id \in SyndesiID :
        /\ id.port \in Ports
        /\ \/ id.address_type = "IPV4"
           \/ id.descriptor = 1}

\* identifiers a controller reports as the source of inbound data
\* (the controllers build them with fromIPv4)
SourceIDs ==
    {id \in SyndesiID :
        id.address_type = "IPV4" /\ id.port \in {NoPort, default_syndesi_port}}

----------------------------------------------------------------------------
(* SyndesiID *)

\* SyndesiID::operator== : descriptor bytes and port of the first segment
IDEquals(a, b) ==
    LET descriptor_equal == a.descriptor = b.descriptor
        port_equal == a.port = b.port
    IN descriptor_equal /\ port_equal

\* SyndesiID::setIPPort
setIPPort(id, p) == [id EXCEPT !.port = p]

\* SyndesiID::SyndesiID(SyndesiID&) : copies descriptor and header, the
\* port of the copy keeps its initial value
CopyID(id) ==
    [address_type |-> id.address_type, descriptor |-> id.descriptor,
     port |-> NoPort]

----------------------------------------------------------------------------
(* LinkedList<SyndesiID> devicesList : a sequence and a cursor *)

\* LinkedList::Append : a copy of the element is stored at the tail
ListAppend(list, id) == Append(list, CopyID(id))

\* LinkedList::next : false when the cursor is on the last element
ListHasNext(list, cur) == cur < Len(list)

\* LinkedList::DeleteCurrent : removes the element under the cursor
DeleteCurrent(list, cur) ==
    [k \in 1..(Len(list) - 1) |-> IF k < cur THEN list[k] ELSE list[k + 1]]

----------------------------------------------------------------------------
(* Interpreters *)

\* the interpreter objects of the application: 1 is the ErrorInterpreter,
\* 2 a RawInterpreter, 3 an application interpreter whose answer depends
\* on the payload
Interpreters == 1..3

InterpreterType ==
    [i \in Interpreters |->
        IF i = 1 THEN "ERROR" ELSE IF i = 2 THEN "TEST" ELSE "OTHER"]

\* parseRequest: NULL, or the reply payload (named after its interpreter)
parseRequest(i, claimed) ==
    IF InterpreterType[i] = "ERROR" THEN NULL
    ELSE IF InterpreterType[i] = "TEST" THEN i
    ELSE IF i \in claimed THEN i ELSE NULL

\* parseReply: TRUE when the interpreter consumed the reply
parseReply(i, claimed) ==
    IF InterpreterType[i] = "ERROR" THEN TRUE
    ELSE IF InterpreterType[i] = "TEST" THEN TRUE
    ELSE i \in claimed

----------------------------------------------------------------------------
(* Frames *)

\* Frame::Frame(SyndesiID& id, ErrorCode errorCode)
ErrorFrame(id, errorCode) ==
    [id |-> id, error |-> TRUE, errorCode |-> errorCode, payload |-> NULL,
     length |-> networkHeader_size + errorCode_size]

\* Frame::Frame(SyndesiID& id, IPayload& payload); the reply payloads of
\* the model are empty (a RawPayloadReply nothing was written to)
PayloadFrame(id, payload) ==
    [id |-> id, error |-> FALSE, errorCode |-> NO_ERROR, payload |-> payload,
     length |-> header_size]

\* one call of an interpreter by the FrameManager
Call(i, fn, result) == [interpreter |-> i, fn |-> fn, result |-> result]

----------------------------------------------------------------------------
(* FrameManager *)

\* The interpreter chain as a sequence, read from the head pointer
RECURSIVE Chain(_, _)
Chain(first, nxt) ==
    IF first = NULL THEN <<>> ELSE <<first>> \o Chain(nxt[first], nxt)

\* FrameManager::operator<< , the while loop: "interpreter" points to
\* first_interpreter and is never moved, so every step stores the successor
\* in first_interpreter itself, until it is NULL
RECURSIVE AttachWalk(_, _)
AttachWalk(first, nxt) ==
    IF first /= NULL THEN AttachWalk(nxt[first], nxt) ELSE first

\* FrameManager::operator<< : the head pointer and the next fields after
\* the call; the new interpreter is stored where "interpreter" points,
\* in first_interpreter
Attach(first, nxt, new_interpreter) ==
    IF AttachWalk(first, nxt) = NULL
    THEN [first_interpreter |-> new_interpreter, next |-> nxt]
    ELSE [first_interpreter |-> first, next |-> nxt]

\* FrameManager::indication, the loop over the interpreters: the head
\* pointer after the loop, the calls made and the payload obtained
RECURSIVE IndicationLoop(_, _, _, _)
IndicationLoop(first, nxt, claimed, calls) ==
    IF first = NULL
    THEN [first_interpreter |-> NULL, calls |-> calls, payload |-> NULL]
    ELSE IF InterpreterType[first] = "ERROR"
    THEN IndicationLoop(nxt[first], nxt, claimed, calls)
    ELSE LET payload == parseRequest(first, claimed)
             made == Append(calls, Call(first, "parseRequest",
                                        payload /= NULL))
         IN  IF payload /= NULL
             THEN [first_interpreter |-> first, calls |-> made,
                   payload |-> payload]
             ELSE IndicationLoop(nxt[first], nxt, claimed, made)

\* indication with the fallback reply carrying the wrong error code
indication_WrongFallback(first, nxt, frame) ==
    LET r == IndicationLoop(first, nxt, frame.claimed, <<>>)
    IN  IF frame.error
        THEN [first_interpreter |-> first, calls |-> <<>>,
              reply |-> ErrorFrame(frame.id, INVALID_PAYLOAD)]
        ELSE [first_interpreter |-> r.first_interpreter, calls |-> r.calls,
              reply |-> IF r.payload /= NULL
                        THEN PayloadFrame(frame.id, r.payload)
                        ELSE ErrorFrame(frame.id, INVALID_PAYLOAD)]

\* indication with the reply addressed to another port than the source's
indication_ReplyElsewhere(first, nxt, frame) ==
    LET r == IndicationLoop(first, nxt, frame.claimed, <<>>)
        to == setIPPort(frame.id, CustomPort)
    IN  IF frame.error
        THEN [first_interpreter |-> first, calls |-> <<>>,
              reply |-> ErrorFrame(to, INVALID_PAYLOAD)]
        ELSE [first_interpreter |-> r.first_interpreter, calls |-> r.calls,
              reply |-> IF r.payload /= NULL
                        THEN PayloadFrame(to, r.payload)
                        ELSE ErrorFrame(to, NO_INTERPETER)]

\* indication offering an error frame to the interpreters all the same
indication_ErrorOffered(first, nxt, frame) ==
    LET r == IndicationLoop(first, nxt, frame.claimed, <<>>)
    IN  [first_interpreter |-> r.first_interpreter, calls |-> r.calls,
         reply |-> IF frame.error
                   THEN ErrorFrame(frame.id, INVALID_PAYLOAD)
                   ELSE IF r.payload /= NULL
                   THEN PayloadFrame(frame.id, r.payload)
                   ELSE ErrorFrame(frame.id, NO_INTERPETER)]

\* FrameManager::indication : the head pointer afterwards, the calls made
\* and the reply frame handed to Network::response
indication(first, nxt, frame) ==
    IF frame.error
    THEN [first_interpreter |-> first, calls |-> <<>>,
          reply |-> ErrorFrame(frame.id, INVALID_PAYLOAD)]
    ELSE LET r == IndicationLoop(first, nxt, frame.claimed, <<>>)
         IN  [first_interpreter |-> r.first_interpreter, calls |-> r.calls,
              reply |-> IF r.payload /= NULL
                        THEN PayloadFrame(frame.id, r.payload)
                        ELSE ErrorFrame(frame.id, NO_INTERPETER)]

\* FrameManager::confirm : the head pointer afterwards and the calls made
RECURSIVE ConfirmLoop(_, _, _, _)
ConfirmLoop(first, nxt, frame, calls) ==
    IF first = NULL
    THEN [first_interpreter |-> NULL, calls |-> calls]
    ELSE IF InterpreterType[first] = "ERROR"
    THEN IF frame.error
         THEN ConfirmLoop(nxt[first], nxt, frame,
                  Append(calls, Call(first, "parseReply",
                                     parseReply(first, frame.claimed))))
         ELSE ConfirmLoop(nxt[first], nxt, frame, calls)
    ELSE LET accepted == parseReply(first, frame.claimed)
             made == Append(calls, Call(first, "parseReply", accepted))
         IN  IF accepted
             THEN [first_interpreter |-> first, calls |-> made]
             ELSE ConfirmLoop(nxt[first], nxt, frame, made)

confirm(first, nxt, frame) == ConfirmLoop(first, nxt, frame, <<>>)

----------------------------------------------------------------------------
(* Network *)

\* a request that sends to every address type
request_AnyAddressType(controller, port, list, id, length, Nwritten) ==
    IF controller
    THEN LET sent == setIPPort(id, port)
             output == (Nwritten = length)
         IN  [output |-> output, idAfter |-> sent,
              writes |-> <<[id |-> sent, length |-> length]>>,
              devicesList |-> IF output THEN ListAppend(list, sent)
                              ELSE list]
    ELSE [output |-> FALSE, idAfter |-> id, writes |-> <<>>,
          devicesList |-> list]

\* Network::request : the result, the caller's identifier afterwards, the
\* transport writes and the pending list afterwards
request(controller, port, list, id, length, Nwritten) ==
    IF controller /\ id.address_type \in {"IPV4", "IPV6"}
    THEN LET sent == setIPPort(id, port)
             output == (Nwritten = length)
         IN  [output |-> output, idAfter |-> sent,
              writes |-> <<[id |-> sent, length |-> length]>>,
              devicesList |-> IF output THEN ListAppend(list, sent)
                              ELSE list]
    ELSE [output |-> FALSE, idAfter |-> id, writes |-> <<>>,
          devicesList |-> list]

\* Network::response : the transport writes it makes
response(controller, frame) ==
    IF controller THEN <<[id |-> frame.id, length |-> frame.length]>>
    ELSE <<>>

\* what Network::response gives back to its caller: it is declared void
\* and discards the result of the write
response_output(controller, frame) == "void"

\* Network::controllerDataAvailable, the while loop: it goes on while the
\* current entry equals deviceID
RECURSIVE ScanPending(_, _, _)
ScanPending(list, cur, deviceID) ==
    IF IDEquals(list[cur], deviceID)
    THEN IF ~ListHasNext(list, cur)
         THEN [deviceFound |-> FALSE, cur |-> cur]
         ELSE ScanPending(list, cur + 1, deviceID)
    ELSE [deviceFound |-> TRUE, cur |-> cur]

\* Network::controllerDataAvailable, up to the classification
FindDevice(list, deviceID) ==
    IF Len(list) > 0
    THEN ScanPending(list, 1, deviceID)
    ELSE [deviceFound |-> FALSE, cur |-> 0]

----------------------------------------------------------------------------
(* Bytes and byte order *)

\* the number of values of a char
ByteRange == 2^8

\* the fill values of storage nothing was written to
GarbageBytes == {0, ByteRange - 1}

\* hton(src, dest, size) : the size bytes written to dest, the most
\* significant first
hton(value, size) ==
    [k \in 1..size |-> (value \div ByteRange^(size - k)) % ByteRange]

\* ntoh(src, dest, size) : the value of the first size bytes of src
RECURSIVE ntoh(_, _)
ntoh(bytes, size) ==
    IF size = 0 THEN 0
    ELSE ntoh(bytes, size - 1) * ByteRange + bytes[size]

----------------------------------------------------------------------------
(* Buffer : a view of a block of storage; the block itself is passed along *)

\* a Buffer nothing was done to
EmptyBuffer == [null |-> TRUE, _offset |-> 0, _clipLength |-> 0, _length |-> 0]

\* Buffer::allocate(length)
allocate(len) ==
    [null |-> FALSE, _offset |-> 0, _clipLength |-> len, _length |-> len]

\* Buffer::length()
Buffer_length(buffer) ==
    IF buffer._offset > buffer._length THEN 0
    ELSE LET len == buffer._length - buffer._offset
         IN  IF buffer._clipLength < len THEN buffer._clipLength ELSE len

\* Buffer::fromParent(parent, offset, length)
fromParent(parent, offset, clip) ==
    IF offset > Buffer_length(parent)
    THEN EmptyBuffer
    ELSE [null |-> parent.null, _offset |-> offset, _clipLength |-> clip,
          _length |-> Buffer_length(parent)]

\* the block after memcpy(buffer->data(), bytes, Len(bytes)); bytes that
\* fall outside the block land in storage the model does not hold
WriteBytes(block, buffer, bytes) ==
    [i \in 1..Len(block) |->
        IF /\ ~buffer.null
           /\ i > buffer._offset
           /\ i <= buffer._offset + Len(bytes)
        THEN bytes[i - buffer._offset]
        ELSE block[i]]

\* buffer->data()[i] ; outside the block, or through a null pointer, the
\* value is whatever the storage holds
ReadByte(block, buffer, i, garbage) ==
    IF ~buffer.null /\ buffer._offset + i + 1 <= Len(block)
    THEN block[buffer._offset + i + 1]
    ELSE garbage

----------------------------------------------------------------------------
(* SyndesiID : the chain of segments, the identifier itself first *)

MaxSegments == 2

MaxParseDepth == 3

IPv4_size == 4

IPv6_size == 16

\* SyndesiID::addressSize(type)
addressSize(type) ==
    CASE type = "IPV4" -> IPv4_size
      [] type = "IPV6" -> IPv6_size
      [] OTHER -> 0

\* address_type_t as a number, and back
AddressTypeCode(type) ==
    CASE type = "IPV4" -> 0
      [] type = "IPV6" -> 1
      [] OTHER -> 2

AddressTypeOf(code) ==
    CASE code = 0 -> "IPV4"
      [] code = 1 -> "IPV6"
      [] OTHER -> "OTHER"

\* sdid_header.value : follow in bit 0, the address type above it
SdidHeaderValue(segment) ==
    2 * AddressTypeCode(segment.address_type)
        + (IF segment.follow THEN 1 ELSE 0)

SdidHeaderFields(value) ==
    [address_type |-> AddressTypeOf(value \div 2), follow |-> value % 2 = 1]

\* the address bytes the model uses: size bytes of one value
Address(type, b) == [k \in 1..addressSize(type) |-> b]

AddressFills == {1, 2}

MasterFills == {1}

\* an identifier made by parseIPv4 / fromIPv4, no chain yet
Master(b) ==
    [address_type |-> "IPV4", follow |-> FALSE, is_next |-> FALSE,
     descriptor |-> Address("IPV4", b)]

\* SyndesiID::SyndesiID(unsigned char* buffer, address_type_t type)
SyndesiIDFromAddress(buffer, type) ==
    [address_type |-> type, follow |-> FALSE, is_next |-> FALSE,
     descriptor |-> SubSeq(buffer, 1, addressSize(type))]

\* SyndesiID::append(buffer, type)
RECURSIVE append(_, _, _)
append(chain, buffer, type) ==
    IF Len(chain) > 1
    THEN <<Head(chain)>> \o append(Tail(chain), buffer, type)
    ELSE <<Head(chain), SyndesiIDFromAddress(buffer, type)>>

\* SyndesiID::reroutes()
RECURSIVE reroutes(_)
reroutes(chain) ==
    LET count == 0
    IN  IF Len(chain) > 1 THEN count + reroutes(Tail(chain)) ELSE count

\* SyndesiID::getTotalAdressingSize() ; the value of addressSize is dropped
RECURSIVE getTotalAdressingSize(_)
getTotalAdressingSize(chain) ==
    LET size == 0
    IN  IF Len(chain) > 1
        THEN size + getTotalAdressingSize(Tail(chain))
        ELSE size

\* SyndesiID::buildAddressingBuffer(buffer) : the block afterwards
RECURSIVE buildAddressingBuffer(_, _, _)
buildAddressingBuffer(chain, block, buffer) ==
    LET this == Head(chain)
        addressLength == addressSize(this.address_type)
        written == WriteBytes(block, buffer,
                       hton(SdidHeaderValue(this), 1) \o this.descriptor)
    IN  IF this.is_next
        THEN IF Len(chain) > 1
             THEN buildAddressingBuffer(Tail(chain), written,
                      fromParent(buffer, addressLength + 1, 0))
             ELSE written
        ELSE IF Len(chain) > 1
             THEN buildAddressingBuffer(Tail(chain), block, buffer)
             ELSE block

\* SyndesiID::SyndesiID(Buffer* buffer) : the segments it makes
RECURSIVE SyndesiIDFromBuffer(_, _, _, _)
SyndesiIDFromBuffer(block, buffer, garbage, depth) ==
    LET header == SdidHeaderFields(
                      ntoh(<<ReadByte(block, buffer, 0, garbage)>>, 1))
        address_size == addressSize(header.address_type)
        this == [address_type |-> header.address_type,
                 follow |-> header.follow, is_next |-> TRUE,
                 descriptor |-> [k \in 1..address_size |->
                                    ReadByte(block, buffer, k, garbage)]]
    IN  IF header.follow /\ depth < MaxParseDepth
        THEN <<this>> \o SyndesiIDFromBuffer(block,
                             fromParent(buffer, address_size + 1, 0),
                             garbage, depth + 1)
        ELSE <<this>>

\* SyndesiID::parseAddressingBuffer(buffer) : next = new SyndesiID(buffer)
parseAddressingBuffer(chain, block, buffer, garbage) ==
    <<Head(chain)>> \o SyndesiIDFromBuffer(block, buffer, garbage, 1)

\* the (address type, address bytes) of the chained segments
Segments(chain) ==
    [k \in 1..(Len(chain) - 1) |->
        [address_type |-> chain[k + 1].address_type,
         descriptor |-> chain[k + 1].descriptor]]

----------------------------------------------------------------------------
(* Frame, byte by byte *)

\* the number of values of payloadLength_t
\* the address bytes a segment holds in its descriptor
AddressBytes(segment) ==
    [i \in 1..addressSize(segment.address_type) |-> segment.descriptor[i]]

\* an operator== that also walks the chained segments
SyndesiID_equals_WholeChain(self, port, id, id_port) ==
    self = id /\ port = id_port

\* SyndesiID::operator== on two identifiers given as chains with the port
\* of their first segment
SyndesiID_equals(self, port, id, id_port) ==
    LET descriptor_equal == Head(self).descriptor = Head(id).descriptor
        port_equal == port = id_port
    IN descriptor_equal /\ port_equal

PayloadLengthRange == ByteRange^payloadLength_size

\* Frame::NetworkHeader : routing in bit 0, follow in bit 1, error in bit 2
NetworkHeaderValue(routing, follow, error) ==
    (IF routing THEN 1 ELSE 0) + (IF follow THEN 2 ELSE 0)
        + (IF error THEN 4 ELSE 0)

NetworkHeaderFields(value) ==
    [routing |-> value % 2 = 1,
     follow |-> (value \div 2) % 2 = 1,
     error |-> (value \div 4) % 2 = 1]

\* a block of len bytes fresh from malloc
Malloc(len, garbage) == [k \in 1..len |-> garbage]

\* memcpy(block + pos, bytes, Len(bytes)), within the block
Poke(block, pos, bytes) ==
    IF pos >= Len(block) THEN block
    ELSE LET room == Len(block) - pos
             n == IF Len(bytes) < room THEN Len(bytes) ELSE room
         IN  SubSeq(block, 1, pos) \o SubSeq(bytes, 1, n)
                 \o SubSeq(block, pos + n + 1, Len(block))

\* IController::read(buffer, length) : the bytes delivered and the bytes
\* left in the transport
read(transport, len) ==
    LET n == IF len < Len(transport) THEN len ELSE Len(transport)
    IN  [data |-> SubSeq(transport, 1, n),
         rest |-> SubSeq(transport, n + 1, Len(transport))]

\* no Frame object
NoFrameObject ==
    [snapshot |-> "none", networkHeader |-> 0, buffer |-> <<>>,
     payloadLength |-> 0, reads |-> <<>>, rest |-> <<>>]

\* Frame_error writing the error code least significant byte first
Frame_error_HostOrder(chain, errorCode, garbage) ==
    LET block == Malloc(networkHeader_size + errorCode_size, garbage)
        coded == Poke(block, networkHeader_size,
                      <<errorCode % ByteRange, errorCode \div ByteRange>>)
        networkHeader == NetworkHeaderValue(reroutes(chain) > 0, FALSE, TRUE)
    IN  [NoFrameObject EXCEPT !.snapshot = "Cpp",
             !.networkHeader = networkHeader,
             !.buffer = Poke(coded, 0, <<networkHeader>>)]

\* Frame::Frame(SyndesiID& id, ErrorCode errorCode) in Cpp/src/frame.cpp
Frame_error(chain, errorCode, garbage) ==
    LET block == Malloc(networkHeader_size + errorCode_size, garbage)
        coded == Poke(block, networkHeader_size,
                      hton(errorCode, errorCode_size))
        networkHeader == NetworkHeaderValue(reroutes(chain) > 0, FALSE, TRUE)
    IN  [NoFrameObject EXCEPT !.snapshot = "Cpp",
             !.networkHeader = networkHeader,
             !.buffer = Poke(coded, 0, <<networkHeader>>)]

\* Frame::Frame(SyndesiID& id, IPayload& payload) in Cpp/src/frame.cpp ; the
\* payload is a RawPayload, whose build() dumps its length() bytes
Frame_payload(chain, payload, garbage) ==
    LET block == Malloc(Len(payload) + header_size
                            + getTotalAdressingSize(chain), garbage)
        networkHeader == NetworkHeaderValue(reroutes(chain) > 0, FALSE, FALSE)
        addressing_size == getTotalAdressingSize(chain)
        payloadLength == (addressing_size + Len(payload)) % PayloadLengthRange
        headed == Poke(block, 0, hton(networkHeader, networkHeader_size))
        sized == Poke(headed, networkHeader_size,
                      hton(payloadLength, payloadLength_size))
    IN  [NoFrameObject EXCEPT !.snapshot = "Cpp",
             !.networkHeader = networkHeader,
             !.payloadLength = payloadLength,
             !.buffer = Poke(sized, header_size, payload)]

\* Buffer::allocate(length) when malloc returns nullptr: _data is null and
\* _length, _offset and _clipLength are 0; nothing is returned to the caller
allocate_failed ==
    [null |-> TRUE, _offset |-> 0, _clipLength |-> 0, _length |-> 0]

\* the stores Frame(id, errorCode) makes through buffer.data(), in order:
\* the error code, then the network header; null tells that data() is built
\* on a null pointer
Frame_error_stores(buffer, chain, errorCode) ==
    <<[null |-> buffer.null, pos |-> buffer._offset + networkHeader_size,
       bytes |-> hton(errorCode, errorCode_size)],
      [null |-> buffer.null, pos |-> buffer._offset,
       bytes |-> <<NetworkHeaderValue(reroutes(chain) > 0, FALSE, TRUE)>>]>>

\* the stores Frame(id, payload) makes through buffer.data(), in order: the
\* network header, the length, the bytes of the payload
Frame_payload_stores(buffer, chain, payload) ==
    <<[null |-> buffer.null, pos |-> buffer._offset,
       bytes |-> hton(NetworkHeaderValue(reroutes(chain) > 0, FALSE, FALSE),
                      networkHeader_size)],
      [null |-> buffer.null, pos |-> buffer._offset + networkHeader_size,
       bytes |-> hton((getTotalAdressingSize(chain) + Len(payload))
                          % PayloadLengthRange, payloadLength_size)],
      [null |-> buffer.null, pos |-> buffer._offset + header_size,
       bytes |-> payload]>>

\* the header bytes a read of header_size leaves in headerBuffer
HeaderBuffer(transport, garbage) ==
    Poke(Malloc(header_size, garbage), 0, read(transport, header_size).data)

\* Frame::Frame(IController& controller, SyndesiID& id, size_t) in
\* Cpp/src/frame.cpp ; the routing branch is empty
Frame_read(transport, garbage) ==
    LET first == read(transport, header_size)
        headerBuffer == HeaderBuffer(transport, garbage)
        networkHeader == headerBuffer[1]
        payloadLength ==
            ntoh(SubSeq(headerBuffer, networkHeader_size + 1, header_size),
                 payloadLength_size)
        second == read(first.rest, payloadLength)
    IN  IF NetworkHeaderFields(networkHeader).error
        THEN [NoFrameObject EXCEPT !.snapshot = "Cpp",
                  !.networkHeader = networkHeader,
                  !.buffer = headerBuffer,
                  !.reads = <<header_size>>, !.rest = first.rest]
        ELSE [NoFrameObject EXCEPT !.snapshot = "Cpp",
                  !.networkHeader = networkHeader,
                  !.payloadLength = payloadLength,
                  !.buffer = Poke(Poke(Malloc(header_size + payloadLength,
                                              garbage), 0, headerBuffer),
                                  header_size, second.data),
                  !.reads = <<header_size, payloadLength>>,
                  !.rest = second.rest]

\* Frame::Frame(IController& controller, SyndesiID& id) in src/frame.cpp :
\* the length is taken from the start of headerBuffer and the header is not
\* copied into the frame buffer
Frame_read_src(transport, garbage) ==
    LET first == read(transport, header_size)
        headerBuffer == HeaderBuffer(transport, garbage)
        networkHeader == ntoh(headerBuffer, networkHeader_size)
        payloadLength == ntoh(headerBuffer, payloadLength_size)
        second == read(first.rest, payloadLength)
    IN  IF NetworkHeaderFields(networkHeader).error
        THEN [NoFrameObject EXCEPT !.snapshot = "src",
                  !.networkHeader = networkHeader,
                  !.buffer = headerBuffer,
                  !.reads = <<header_size>>, !.rest = first.rest]
        ELSE [NoFrameObject EXCEPT !.snapshot = "src",
                  !.networkHeader = networkHeader,
                  !.payloadLength = payloadLength,
                  !.buffer = Poke(Malloc(header_size + payloadLength,
                                         garbage),
                                  header_size, second.data),
                  !.reads = <<header_size, payloadLength>>,
                  !.rest = second.rest]

\* where Frame::getPayloadBuffer() points into the frame buffer
PayloadOffset(frame) ==
    IF NetworkHeaderFields(frame.networkHeader).error
    THEN networkHeader_size
    ELSE header_size

\* the bytes at getPayloadBuffer(), getPayloadLength() of them
PayloadView(frame) ==
    SubSeq(frame.buffer, PayloadOffset(frame) + 1,
           PayloadOffset(frame) + frame.payloadLength)

\* a view of the frame's bytes is the storage it points into, where, and
\* the blocks obtaining it allocated
\* Frame::getPayloadBuffer() in Cpp/src/frame.cpp : a pointer into buffer
getPayloadBuffer(frame) ==
    [storage |-> "frame", offset |-> PayloadOffset(frame), allocated |-> 0,
     block |-> frame.buffer]

\* Buffer::operator=(other) in src/buffer.cpp : a block of other.length()
\* bytes and a copy of them
Buffer_assign(otherBlock, other) ==
    [storage |-> "own", offset |-> 0, allocated |-> 1,
     block |-> [k \in 1..Buffer_length(other) |->
                   otherBlock[other._offset + k]]]

\* Buffer::offset(offset, length)
Buffer_offset(buffer, offset, clip) == fromParent(buffer, offset, clip)

\* Frame::getPayloadBuffer() in src/frame.cpp :
\* payloadBuffer = buffer->offset(...)
getPayloadBuffer_src(frame) ==
    Buffer_assign(frame.buffer,
        Buffer_offset(allocate(Len(frame.buffer)), PayloadOffset(frame), 0))

\* one byte stored through a view, at index i: the view's block afterwards
ViewWrite(view, i, value) == Poke(view.block, view.offset + i, <<value>>)

----------------------------------------------------------------------------
(* Address texts : SyndesiID::parse *)

\* the characters of a text are one-character strings
DigitChars == <<"0", "1", "2", "3", "4", "5", "6", "7", "8", "9">>

IsDigit(c) == \E d \in 1..Len(DigitChars) : DigitChars[d] = c

DigitValue(c) == (CHOOSE d \in 1..Len(DigitChars) : DigitChars[d] = c) - 1

\* the number of values of an unsigned short
UShortRange == ByteRange * ByteRange

\* the decimal text of a number, as a caller writes it
RECURSIVE Decimal(_)
Decimal(n) ==
    IF n < Len(DigitChars)
    THEN <<DigitChars[n + 1]>>
    ELSE Decimal(n \div Len(DigitChars))
         \o <<DigitChars[(n % Len(DigitChars)) + 1]>>

\* the digits sscanf consumes from pos on, and their value
RECURSIVE ScanDigits(_, _, _)
ScanDigits(text, pos, value) ==
    IF pos <= Len(text) /\ IsDigit(text[pos])
    THEN ScanDigits(text, pos + 1,
                    value * Len(DigitChars) + DigitValue(text[pos]))
    ELSE [pos |-> pos, value |-> value]

\* the conversion %hu : at least one digit, the value stored in an unsigned
\* short (the texts of the model hold no white space and no sign)
scan_hu(text, pos) ==
    LET d == ScanDigits(text, pos, 0)
    IN  [matched |-> d.pos > pos, pos |-> d.pos,
         value |-> d.value % UShortRange]

\* sscanf(text, format, ...) : the values assigned, in order; it stops at
\* the first conversion or literal character that does not match and never
\* looks at what follows the last conversion
RECURSIVE sscanf(_, _, _, _)
sscanf(text, pos, format, values) ==
    IF format = <<>>
    THEN values
    ELSE IF Head(format) = "%hu"
         THEN LET c == scan_hu(text, pos)
              IN  IF c.matched
                  THEN sscanf(text, c.pos, Tail(format),
                              Append(values, c.value))
                  ELSE values
         ELSE IF pos <= Len(text) /\ text[pos] = Head(format)
              THEN sscanf(text, pos + 1, Tail(format), values)
              ELSE values

\* std::string::find(c) != npos
Contains(text, c) == \E i \in 1..Len(text) : text[i] = c

IPv4Format == <<"%hu", ".", "%hu", ".", "%hu", ".", "%hu">>

IPv4PortFormat == IPv4Format \o <<":", "%hu">>

\* a parseIPv4 that keeps the port it was given
parseIPv4_NoDefaultPort(id, ip, port, settingsPort) ==
    LET withPort == Contains(ip, ":")
        scanned == sscanf(ip, 1, IF withPort THEN IPv4PortFormat
                                 ELSE IPv4Format, <<>>)
    IN  IF Len(scanned) < (IF withPort THEN IPv4_size + 1 ELSE IPv4_size)
        THEN [result |-> FALSE, id |-> id]
        ELSE [result |-> TRUE,
              id |-> [address_type |-> "IPV4",
                      descriptor |->
                          [i \in 1..IPv4_size |-> scanned[i] % ByteRange],
                      port |-> IF withPort THEN scanned[IPv4_size + 1]
                               ELSE port]]

\* SyndesiID::parseIPv4(ip, port) on the identifier id, settingsPort being
\* settings.getIPPort(); id is [address_type, descriptor, port]
parseIPv4(id, ip, port, settingsPort) ==
    LET withPort == Contains(ip, ":")
        scanned == sscanf(ip, 1, IF withPort THEN IPv4PortFormat
                                 ELSE IPv4Format, <<>>)
    IN  IF Len(scanned) < (IF withPort THEN IPv4_size + 1 ELSE IPv4_size)
        THEN [result |-> FALSE, id |-> id]
        ELSE LET bytes == [i \in 1..IPv4_size |-> scanned[i] % ByteRange]
                 p == IF withPort THEN scanned[IPv4_size + 1] ELSE port
             IN  [result |-> TRUE,
                  id |-> [address_type |-> "IPV4", descriptor |-> bytes,
                          port |-> IF p > 0 THEN p ELSE settingsPort]]

\* SyndesiID::parse(text) ; parseIPv4 is called without a port
parse(id, text, settingsPort) ==
    IF Contains(text, ".")
    THEN parseIPv4(id, text, NoPort, settingsPort)
    ELSE [result |-> FALSE, id |-> id]

----------------------------------------------------------------------------
(* Buffer objects and the heap their blocks are taken from *)

\* the Buffer objects of the program
BufferNames == {"B", "V"}

\* the Buffer objects fromParent is called on
ViewNames == {"V"}

\* the blocks malloc hands out before the heap is exhausted
MaxBlocks == 2

\* the length of the blocks asked for
BlockLength == 2

\* the null pointer; a block is named by its place in the heap
nullptr == 0

\* a Buffer as its member initialisers leave it; parent and at are history:
\* the buffer _data was taken from by fromParent, and the offset asked for
FreshBuffer ==
    [alive |-> TRUE, _data |-> nullptr, _length |-> 0, isparent |-> TRUE,
     _offset |-> 0, _clipLength |-> 0, parent |-> "none", at |-> 0]

\* malloc(len) : a new block at the end of the heap
malloc(h, len, garbage) ==
    Append(h, [bytes |-> Malloc(len, garbage), frees |-> 0])

\* free(p) ; what the block held is gone
free(h, p) == [h EXCEPT ![p] = [bytes |-> <<>>, frees |-> @.frees + 1]]

\* Buffer::deallocate()
Buffer_deallocate(h, self) ==
    IF self._data /= nullptr /\ self.isparent
    THEN [heap |-> free(h, self._data),
          self |-> [self EXCEPT !._data = nullptr]]
    ELSE [heap |-> h, self |-> self]

\* Buffer::allocate(length)
Buffer_allocate(h, self, len, garbage) ==
    LET d == Buffer_deallocate(h, self)
        grown == malloc(d.heap, len, garbage)
    IN  [heap |-> grown,
         self |-> [d.self EXCEPT !._data = Len(grown), !._length = len,
                                 !._offset = 0, !._clipLength = len,
                                 !.isparent = TRUE, !.parent = "none",
                                 !.at = 0]]

\* a fromParent whose view starts at the first byte of the block
Buffer_fromParent_NoOffset(self, parentName, parent, offset, len) ==
    [self |-> IF offset > Buffer_length(parent)
              THEN [self EXCEPT !.isparent = FALSE]
              ELSE [self EXCEPT !.isparent = FALSE, !._data = parent._data,
                                !._offset = 0, !._clipLength = len,
                                !._length = Buffer_length(parent),
                                !.parent = parentName, !.at = offset],
     error |-> FALSE]

\* Buffer::fromParent(parent, offset, length) in src/buffer.cpp ; it returns
\* nothing and throws nothing: error is what the caller is told
Buffer_fromParent(self, parentName, parent, offset, len) ==
    [self |-> IF offset > Buffer_length(parent)
              THEN [self EXCEPT !.isparent = FALSE]
              ELSE [self EXCEPT !.isparent = FALSE, !._data = parent._data,
                                !._offset = offset, !._clipLength = len,
                                !._length = Buffer_length(parent),
                                !.parent = parentName, !.at = offset],
     error |-> FALSE]

\* Buffer::length() in include/buffer.h
length_include(buffer) ==
    IF buffer._offset > buffer._length THEN 0
    ELSE LET len == buffer._length - buffer._offset
         IN  IF buffer._clipLength > 0 /\ buffer._clipLength < len
             THEN buffer._clipLength
             ELSE len

\* Buffer::offset(offset, length) in include/buffer.h : fromParent on a new
\* Buffer, which sets _data, _offset and _clipLength and leaves _length
fromParent_include(parent, offset, len) ==
    [FreshBuffer EXCEPT !.isparent = FALSE, !._data = parent._data,
                        !._offset = offset, !._clipLength = len]

\* memcpy(self.data(), chars, Len(chars))
Buffer_memcpy(h, self, chars) ==
    [h EXCEPT ![self._data].bytes = Poke(@, self._offset, chars)]

\* other.data()[0 .. n-1]
Buffer_bytes(h, other, n) ==
    [k \in 1..n |-> h[other._data].bytes[other._offset + k]]

\* Buffer::fromBuffer(buffer, length) in src/buffer.cpp
Buffer_fromBuffer(h, self, chars, garbage) ==
    LET a == Buffer_allocate(h, self, Len(chars), garbage)
    IN  [heap |-> Buffer_memcpy(a.heap, a.self, chars), self |-> a.self]

\* Buffer::operator=(other) in src/buffer.cpp
Buffer_copyAssign(h, self, other, garbage) ==
    LET n == Buffer_length(other)
        a == Buffer_allocate(h, self, n, garbage)
    IN  [heap |-> Buffer_memcpy(a.heap, a.self, Buffer_bytes(h, other, n)),
         self |-> a.self]

\* data()[i]
Buffer_read(h, self, i) == h[self._data].bytes[self._offset + i + 1]

----------------------------------------------------------------------------
VARIABLES
    devicesList,          \* Network::devicesList, the pending-reply list
    first_interpreter,    \* FrameManager::first_interpreter
    next,                 \* IInterpreter::next of every interpreter
    networkIPController,  \* TRUE when an IP controller is registered
    IPPort,               \* Settings::IPPort
    attached,             \* history: the arguments of operator<<, in order
    ev,                   \* history: the last operation and what it did
    sdid,                 \* a SyndesiID and the segments chained to it
    idHist,               \* history: how the chain of sdid was made
    wire,                 \* the bytes waiting in the transport
    onWire,               \* history: what put the bytes of wire there
    received,             \* the Frame made by reading the transport
    pid,                  \* the SyndesiID that parses address texts
    pe,                   \* history: the last text parsed and the outcome
    heap,                 \* the blocks malloc returned, in order
    buffers,              \* the Buffer objects, by name
    be,                   \* history: the last Buffer operation
    fe,                   \* history: the last codec operation
    clist,                \* devicesList while two threads are in Network
    ccur,                 \* the cursor of that list
    thr,                  \* the call of each thread and where it is
    cstart,               \* history: the list when the two calls started
    csockOpen,            \* the delayer: TRUE until closesock(csock)
    echo,                 \* the delayer: the echo threads of a connection
    wmutex                \* the delayer: the echo holding wmutex, or 0

dvars == <<devicesList, first_interpreter, next, networkIPController, IPPort,
           attached, ev>>

fvars == <<sdid, idHist, wire, onWire, received, fe>>

pvars == <<pid, pe>>

bvars == <<heap, buffers, be>>

cvars == <<clist, ccur, thr, cstart>>

tvars == <<csockOpen, echo, wmutex>>

vars == <<dvars, fvars, pvars, bvars, cvars, tvars>>

NoSent ==
    [kind |-> "none", chain |-> <<>>, errorCode |-> NO_ERROR,
     payload |-> <<>>, bytes |-> <<>>]

NoFrameEvent ==
    [op |-> "none", original |-> <<>>, parsed |-> <<>>, written |-> <<>>,
     allocated |-> 0, index |-> 0, value |-> 0, storage |-> "none",
     garbage |-> 0, other |-> <<>>, ports |-> <<>>, result |-> FALSE,
     stores |-> <<>>]

FreshHist == [appends |-> 0, parsed |-> FALSE]

\* an identifier made by fromIPv4 without a port
FreshID(b) ==
    [address_type |-> "IPV4", descriptor |-> Address("IPV4", b),
     port |-> NoPort]

NoBufferEvent ==
    [op |-> "none", target |-> "none", parent |-> "none", offset |-> 0,
     clip |-> 0, parentLength |-> 0, error |-> FALSE, lengthInclude |-> 0,
     length |-> 0, index |-> 0, value |-> 0, freedBorrowed |-> FALSE,
     view |-> FreshBuffer]

NoParseEvent ==
    [op |-> "none", fields |-> <<>>, suffix |-> "none", portValue |-> 0,
     trailing |-> <<>>, text |-> <<>>, settings |-> 0, before |-> FreshID(1),
     result |-> FALSE]

NoID == [address_type |-> "OTHER", descriptor |-> 1, port |-> NoPort]

NoFrame == [id |-> NoID, error |-> FALSE, claimed |-> {}]

NoEvent ==
    [op |-> "none", id |-> NoID, frame |-> NoFrame, length |-> 0,
     Nwritten |-> 0, listBefore |-> <<>>, firstBefore |-> NULL,
     class |-> "none", calls |-> <<>>, responses |-> <<>>, writes |-> <<>>,
     output |-> FALSE, idAfter |-> NoID, responseOutput |-> "none"]

Threads == {1, 2}

\* a thread that is not in Network
IdleThread ==
    [pc |-> "idle", op |-> "none", id |-> NoID, Nwritten |-> 0,
     deviceFound |-> TRUE, class |-> "none"]

\* the cursor of devicesList when no element is the current one
NoCurrent == 0

\* the echoes one connection schedules
MaxEchoes == 3

Echoes == 1..MaxEchoes

\* an echo thread that was not started
NoEcho == [at |-> "none", sentOpen |-> TRUE]

Init ==
    /\ devicesList = <<>>
    /\ first_interpreter = NULL
    /\ next = [i \in Interpreters |-> NULL]
    /\ networkIPController = FALSE
    /\ IPPort = default_syndesi_port
    /\ attached = <<>>
    /\ ev = NoEvent
    /\ sdid \in {<<Master(b)>> : b \in MasterFills}
    /\ idHist = FreshHist
    /\ wire = <<>>
    /\ onWire = NoSent
    /\ received = NoFrameObject
    /\ fe = NoFrameEvent
    /\ pid \in {FreshID(b) : b \in MasterFills}
    /\ pe = NoParseEvent
    /\ heap = <<>>
    /\ buffers = [name \in BufferNames |-> FreshBuffer]
    /\ be = NoBufferEvent
    /\ clist = <<>>
    /\ ccur = NoCurrent
    /\ thr = [t \in Threads |-> IdleThread]
    /\ cstart = <<>>
    /\ csockOpen = TRUE
    /\ echo = [j \in Echoes |-> NoEcho]
    /\ wmutex = 0

\* the controller's constructor registers it in networkIPController
RegisterController ==
    /\ ~networkIPController
    /\ networkIPController' = TRUE
    /\ ev' = [NoEvent EXCEPT !.op = "register"]
    /\ UNCHANGED <<fvars, pvars, bvars, cvars, tvars>>
    /\ UNCHANGED <<devicesList, first_interpreter, next, IPPort, attached>>

\* Settings::setIPPort
SetIPPort ==
    \E p \in Ports :
        /\ p /= IPPort
        /\ IPPort' = p
        /\ ev' = [NoEvent EXCEPT !.op = "setIPPort"]
        /\ UNCHANGED <<fvars, pvars, bvars, cvars, tvars>>
        /\ UNCHANGED <<devicesList, first_interpreter, next,
                       networkIPController, attached>>

\* frameManager << interpreter
AttachInterpreter ==
    \E i \in Interpreters :
        /\ \A k \in 1..Len(attached) : attached[k] /= i
        /\ LET r == Attach(first_interpreter, next, i)
           IN  /\ first_interpreter' = r.first_interpreter
               /\ next' = r.next
        /\ attached' = Append(attached, i)
        /\ ev' = [NoEvent EXCEPT !.op = "attach",
                                 !.firstBefore = first_interpreter]
        /\ UNCHANGED <<fvars, pvars, bvars, cvars, tvars>>
        /\ UNCHANGED <<devicesList, networkIPController, IPPort>>

\* Network::request(frame)
Request ==
    \E id \in RequestIDs, length \in FrameLengths :
    \E Nwritten \in WriteResults(length) :
        /\ Len(devicesList) < MaxPending
        /\ LET r == request(networkIPController, IPPort, devicesList, id,
                            length, Nwritten)
           IN  /\ devicesList' = r.devicesList
               /\ ev' = [NoEvent EXCEPT !.op = "request", !.id = id,
                             !.length = length, !.Nwritten = Nwritten,
                             !.listBefore = devicesList,
                             !.firstBefore = first_interpreter,
                             !.output = r.output, !.idAfter = r.idAfter,
                             !.writes = r.writes]
        /\ UNCHANGED <<fvars, pvars, bvars, cvars, tvars>>
        /\ UNCHANGED <<first_interpreter, next, networkIPController, IPPort,
                       attached>>

\* Network::controllerDataAvailable(controller, deviceID, length), with the
\* FrameManager::confirm or FrameManager::indication it calls
ControllerDataAvailable ==
    \E deviceID \in SourceIDs, error \in BOOLEAN,
       claimed \in SUBSET {i \in Interpreters : InterpreterType[i] = "OTHER"} :
        LET frame == [id |-> deviceID, error |-> error, claimed |-> claimed]
            found == FindDevice(devicesList, deviceID)
        IN  IF found.deviceFound
            THEN LET c == confirm(first_interpreter, next, frame)
                 IN  /\ devicesList' = DeleteCurrent(devicesList, found.cur)
                     /\ first_interpreter' = c.first_interpreter
                     /\ ev' = [NoEvent EXCEPT !.op = "data", !.id = deviceID,
                                   !.frame = frame,
                                   !.listBefore = devicesList,
                                   !.firstBefore = first_interpreter,
                                   !.class = "confirm", !.calls = c.calls,
                                   !.idAfter = deviceID]
                     /\ UNCHANGED <<fvars, pvars, bvars, cvars, tvars>>
                     /\ UNCHANGED <<next, networkIPController, IPPort,
                                    attached>>
            ELSE LET d == indication(first_interpreter, next, frame)
                 IN  /\ devicesList' = devicesList
                     /\ first_interpreter' = d.first_interpreter
                     /\ ev' = [NoEvent EXCEPT !.op = "data", !.id = deviceID,
                                   !.frame = frame,
                                   !.listBefore = devicesList,
                                   !.firstBefore = first_interpreter,
                                   !.class = "indication", !.calls = d.calls,
                                   !.responses = <<d.reply>>,
                                   !.writes = response(networkIPController,
                                                       d.reply),
                                   !.responseOutput =
                                       response_output(networkIPController,
                                                       d.reply),
                                   !.idAfter = deviceID]
                     /\ UNCHANGED <<fvars, pvars, bvars, cvars, tvars>>
                     /\ UNCHANGED <<next, networkIPController, IPPort,
                                    attached>>

Next ==
    \/ RegisterController
    \/ SetIPPort
    \/ AttachInterpreter
    \/ Request
    \/ ControllerDataAvailable

Spec == Init /\ [][Next]_vars

----------------------------------------------------------------------------
(* The codec on its own: identifiers are made and chained, frames are built
   into a transport, read back from it, and their payload view is used *)

MaxPayloadLength == 2

PayloadBytes == {1, ByteRange - 1}

\* the byte sequences of at most n bytes
RECURSIVE ByteSeqs(_)
ByteSeqs(n) ==
    IF n = 0 THEN {<<>>}
    ELSE LET shorter == ByteSeqs(n - 1)
         IN  shorter \cup {Append(q, b) : q \in shorter, b \in PayloadBytes}

\* a payload one byte longer than payloadLength_t can count
LongPayload == [k \in 1..PayloadLengthRange |-> 0]

\* the data of the RawPayloads handed to Frame(id, payload)
Payloads == ByteSeqs(MaxPayloadLength) \cup {LongPayload}

ErrorCodes == {NO_ERROR, NO_INTERPETER, INVALID_PAYLOAD}

\* the types append is called with
AppendTypes == {"IPV4", "IPV6"}

\* one segment as it travels: header byte, then the address
WireSegment(type, follow, b) ==
    hton(SdidHeaderValue([address_type |-> type, follow |-> follow]), 1)
        \o Address(type, b)

\* address chains as a peer writes them
WireChains ==
    {WireSegment("IPV4", FALSE, 1),
     WireSegment("IPV4", TRUE, 1) \o WireSegment("IPV6", FALSE, 2)}

\* a frame as a peer writes it: header, length, then the region
WireFrame(routing, region) ==
    hton(NetworkHeaderValue(routing, FALSE, FALSE), networkHeader_size)
        \o hton(Len(region), payloadLength_size) \o region

\* an error frame as a peer writes it
WireErrorFrame(routing, errorCode) ==
    hton(NetworkHeaderValue(routing, FALSE, TRUE), networkHeader_size)
        \o hton(errorCode, errorCode_size)

\* frames arriving from a peer
WireFrames ==
    {WireFrame(TRUE, chain \o p) : chain \in WireChains,
                                   p \in ByteSeqs(1)}
    \cup {WireFrame(FALSE, [k \in 1..(ByteRange + 1) |-> 1])}
    \cup {WireErrorFrame(TRUE, NO_INTERPETER)}

\* a new identifier is made and the transport is set up anew
NewIdentifier ==
    \E b \in MasterFills :
        /\ sdid /= <<Master(b)>> \/ onWire /= NoSent
        /\ sdid' = <<Master(b)>>
        /\ idHist' = FreshHist
        /\ wire' = <<>>
        /\ onWire' = NoSent
        /\ received' = NoFrameObject
        /\ fe' = [NoFrameEvent EXCEPT !.op = "new"]
        /\ UNCHANGED <<dvars, pvars, bvars, cvars, tvars>>

\* sdid.append(buffer, type)
AppendSegment ==
    \E type \in AppendTypes, b \in AddressFills :
        /\ onWire = NoSent
        /\ Len(sdid) <= MaxSegments
        /\ sdid' = append(sdid, Address(type, b), type)
        /\ idHist' = [idHist EXCEPT !.appends = @ + 1]
        /\ fe' = [NoFrameEvent EXCEPT !.op = "append"]
        /\ UNCHANGED <<wire, onWire, received>>
        /\ UNCHANGED <<dvars, pvars, bvars, cvars, tvars>>

\* sdid.parseAddressingBuffer(buffer), buffer holding a chain of a peer
ParseAddressingBuffer ==
    \E bytes \in WireChains, garbage \in GarbageBytes :
        /\ onWire = NoSent
        /\ ~idHist.parsed
        /\ sdid' = parseAddressingBuffer(sdid, bytes, allocate(Len(bytes)),
                                         garbage)
        /\ idHist' = [idHist EXCEPT !.parsed = TRUE]
        /\ fe' = [NoFrameEvent EXCEPT !.op = "parseChain"]
        /\ UNCHANGED <<wire, onWire, received>>
        /\ UNCHANGED <<dvars, pvars, bvars, cvars, tvars>>

\* the bytes the chained segments of an identifier take when serialized
RECURSIVE SerializedSize(_)
SerializedSize(segments) ==
    IF segments = <<>> THEN 0
    ELSE 1 + addressSize(Head(segments).address_type)
           + SerializedSize(Tail(segments))

\* sdid.buildAddressingBuffer(buffer), then parseAddressingBuffer(buffer) on
\* a fresh identifier; the buffer has room for every chained segment
ChainRoundTrip ==
    \E garbage \in GarbageBytes :
        onWire = NoSent /\
        LET size == SerializedSize(Segments(sdid))
            buffer == allocate(size)
            written == buildAddressingBuffer(sdid, Malloc(size, garbage),
                                             buffer)
            parsed == parseAddressingBuffer(<<Head(sdid)>>, written, buffer,
                                            garbage)
        IN  /\ fe' = [NoFrameEvent EXCEPT !.op = "roundTrip",
                          !.original = Segments(sdid),
                          !.written = written,
                          !.garbage = garbage,
                          !.parsed = Segments(parsed)]
            /\ UNCHANGED <<sdid, idHist, wire, onWire, received>>
            /\ UNCHANGED <<dvars, pvars, bvars, cvars, tvars>>

\* Frame(sdid, errorCode), its buffer written to the transport
MakeErrorFrame ==
    /\ onWire = NoSent
    /\ \E errorCode \in ErrorCodes, garbage \in GarbageBytes :
        /\ LET made == Frame_error(sdid, errorCode, garbage)
           IN  /\ wire' = made.buffer
               /\ onWire' = [NoSent EXCEPT !.kind = "error", !.chain = sdid,
                                 !.errorCode = errorCode,
                                 !.bytes = made.buffer]
        /\ received' = NoFrameObject
        /\ fe' = [NoFrameEvent EXCEPT !.op = "error"]
        /\ UNCHANGED <<sdid, idHist>>
        /\ UNCHANGED <<dvars, pvars, bvars, cvars, tvars>>

\* Frame(sdid, payload), its buffer written to the transport
MakePayloadFrame ==
    /\ onWire = NoSent
    /\ \E payload \in Payloads, garbage \in GarbageBytes :
        /\ LET made == Frame_payload(sdid, payload, garbage)
           IN  /\ wire' = made.buffer
               /\ onWire' = [NoSent EXCEPT !.kind = "payload",
                                 !.chain = sdid, !.payload = payload,
                                 !.bytes = made.buffer]
        /\ received' = NoFrameObject
        /\ fe' = [NoFrameEvent EXCEPT !.op = "payload"]
        /\ UNCHANGED <<sdid, idHist>>
        /\ UNCHANGED <<dvars, pvars, bvars, cvars, tvars>>

\* Frame(sdid, errorCode) or Frame(sdid, payload) when malloc has no storage
\* left: allocate leaves a null buffer and the constructor goes on
MakeFrameNoMemory ==
    /\ onWire = NoSent
    /\ \/ \E errorCode \in ErrorCodes :
            fe' = [NoFrameEvent EXCEPT
                       !.op = "noMemory",
                       !.stores = Frame_error_stores(allocate_failed, sdid,
                                                     errorCode)]
       \/ \E payload \in Payloads \ {LongPayload} :
            fe' = [NoFrameEvent EXCEPT
                       !.op = "noMemory",
                       !.stores = Frame_payload_stores(allocate_failed, sdid,
                                                       payload)]
    /\ UNCHANGED <<sdid, idHist, wire, onWire, received>>
    /\ UNCHANGED <<dvars, pvars, bvars, cvars, tvars>>

\* a peer writes a frame to the transport
Receive ==
    /\ onWire = NoSent
    /\ \E bytes \in WireFrames :
        /\ wire' = bytes
        /\ onWire' = [NoSent EXCEPT !.kind = "peer", !.bytes = bytes]
        /\ received' = NoFrameObject
        /\ fe' = [NoFrameEvent EXCEPT !.op = "receive"]
        /\ UNCHANGED <<sdid, idHist>>
        /\ UNCHANGED <<dvars, pvars, bvars, cvars, tvars>>

\* Frame frame(controller, sdid, length) of Cpp/src/frame.cpp ; the
\* connection is closed afterwards
ReadFrame ==
    /\ wire /= <<>>
    /\ \E garbage \in GarbageBytes :
        /\ received' = Frame_read(wire, garbage)
        /\ wire' = <<>>
        /\ fe' = [NoFrameEvent EXCEPT !.op = "read"]
        /\ UNCHANGED <<sdid, idHist, onWire>>
        /\ UNCHANGED <<dvars, pvars, bvars, cvars, tvars>>

\* Frame frame(controller, sdid) of src/frame.cpp ; the connection is
\* closed afterwards
ReadFrameSrc ==
    /\ wire /= <<>>
    /\ \E garbage \in GarbageBytes :
        /\ received' = Frame_read_src(wire, garbage)
        /\ wire' = <<>>
        /\ fe' = [NoFrameEvent EXCEPT !.op = "read"]
        /\ UNCHANGED <<sdid, idHist, onWire>>
        /\ UNCHANGED <<dvars, pvars, bvars, cvars, tvars>>

\* the values stored through a payload view, and where
ViewValues == {ByteRange - 2}

ViewIndexes == {0, 1}

\* one byte is stored through what getPayloadBuffer() returned
WriteThroughView ==
    \E i \in ViewIndexes, value \in ViewValues :
        /\ fe.op = "read"
        /\ received.snapshot = "Cpp"
        /\ PayloadOffset(received) + i < Len(received.buffer)
        /\ LET view == getPayloadBuffer(received)
           IN  /\ received' = [received EXCEPT !.buffer =
                                  IF view.storage = "frame"
                                  THEN ViewWrite(view, i, value)
                                  ELSE @]
               /\ fe' = [NoFrameEvent EXCEPT !.op = "view", !.index = i,
                             !.value = value, !.storage = view.storage,
                             !.allocated = view.allocated]
        /\ UNCHANGED <<sdid, idHist, wire, onWire>>
        /\ UNCHANGED <<dvars, pvars, bvars, cvars, tvars>>

\* the same with the getPayloadBuffer() of src/frame.cpp
WriteThroughViewSrc ==
    \E i \in ViewIndexes, value \in ViewValues :
        /\ fe.op = "read"
        /\ received.snapshot = "src"
        /\ PayloadOffset(received) + i < Len(received.buffer)
        /\ LET view == getPayloadBuffer_src(received)
           IN  /\ received' = [received EXCEPT !.buffer =
                                  IF view.storage = "frame"
                                  THEN ViewWrite(view, i, value)
                                  ELSE @]
               /\ fe' = [NoFrameEvent EXCEPT !.op = "view", !.index = i,
                             !.value = value, !.storage = view.storage,
                             !.allocated = view.allocated]
        /\ UNCHANGED <<sdid, idHist, wire, onWire>>
        /\ UNCHANGED <<dvars, pvars, bvars, cvars, tvars>>

\* the identifiers sdid is compared with: a first segment alone or with one
\* chained segment
OtherChains ==
    {<<Master(b)>> : b \in AddressFills}
    \cup {append(<<Master(b)>>, Address("IPV4", c), "IPV4") :
             b \in AddressFills, c \in MasterFills}

\* sdid == id, each identifier with a port of its own
CompareIdentifiers ==
    /\ onWire = NoSent
    /\ \E id \in OtherChains, port \in Ports, id_port \in Ports :
        fe' = [NoFrameEvent EXCEPT !.op = "equals", !.other = id,
                   !.ports = <<port, id_port>>,
                   !.result = SyndesiID_equals(sdid, port, id, id_port)]
    /\ UNCHANGED <<sdid, idHist, wire, onWire, received>>
    /\ UNCHANGED <<dvars, pvars, bvars, cvars, tvars>>

FrameNext ==
    \/ NewIdentifier
    \/ AppendSegment
    \/ ParseAddressingBuffer
    \/ ChainRoundTrip
    \/ MakeErrorFrame
    \/ MakePayloadFrame
    \/ Receive
    \/ ReadFrame
    \/ ReadFrameSrc
    \/ WriteThroughView
    \/ WriteThroughViewSrc
    \/ CompareIdentifiers
    \/ MakeFrameNoMemory

FrameSpec == Init /\ [][FrameNext]_vars

----------------------------------------------------------------------------
(* The address texts *)

\* the numbers between the dots: the spec's example, the largest octets, an
\* octet too large, too few and too many fields
FieldLists ==
    {<<127, 0, 0, 1>>,
     <<ByteRange - 1, ByteRange - 1, ByteRange - 1, ByteRange - 1>>,
     <<ByteRange, 0, 0, 1>>,
     <<1, 2, 3>>,
     <<1, 2, 3, 4, 5>>}

\* what follows the fields: nothing, ":" alone, or ":" and a number
Suffixes == {"none", "colon", "port"}

PortValues == {0, default_syndesi_port, CustomPort, UShortRange - 1,
               UShortRange}

Trailings == {<<>>, <<"x">>}

RECURSIVE Dotted(_)
Dotted(fields) ==
    IF Len(fields) = 1
    THEN Decimal(Head(fields))
    ELSE Decimal(Head(fields)) \o <<".">> \o Dotted(Tail(fields))

AddressText(fields, suffix, portValue, trailing) ==
    Dotted(fields)
    \o (IF suffix = "none" THEN <<>>
        ELSE IF suffix = "colon" THEN <<":">>
        ELSE <<":">> \o Decimal(portValue))
    \o trailing

\* pid.parse(text), as syndesiIDParseDescriptor calls it
ParseText ==
    \E fields \in FieldLists \cup {<<127>>}, suffix \in Suffixes,
       portValue \in PortValues, trailing \in Trailings :
        /\ suffix /= "port" => portValue = 0
        /\ LET text == AddressText(fields, suffix, portValue, trailing)
               r == parse(pid, text, IPPort)
           IN  /\ pid' = r.id
               /\ pe' = [op |-> "parse", fields |-> fields,
                         suffix |-> suffix, portValue |-> portValue,
                         trailing |-> trailing, text |-> text,
                         settings |-> IPPort, before |-> pid,
                         result |-> r.result]
        /\ UNCHANGED <<dvars, fvars, bvars, cvars, tvars>>

ParseNext ==
    \/ SetIPPort
    \/ ParseText

ParseSpec == Init /\ [][ParseNext]_vars

----------------------------------------------------------------------------
(* The Buffer objects *)

\* the offsets and clip lengths of the sub-views: inside the parent, at its
\* end, beyond it; no clip, a clip that cuts, a clip that does not
Offsets == {0, 1, BlockLength + 1}

Clips == {0, 1, BlockLength}

\* TRUE when reading n bytes through the buffer stays in a block that was
\* not released
Readable(h, buffer, n) ==
    n = 0 \/ (/\ buffer._data /= nullptr
              /\ h[buffer._data].frees = 0
              /\ buffer._offset + n <= Len(h[buffer._data].bytes))

\* Buffer name;  after ~Buffer()
Construct ==
    \E name \in BufferNames :
        /\ ~buffers[name].alive
        /\ buffers' = [buffers EXCEPT ![name] = FreshBuffer]
        /\ be' = [NoBufferEvent EXCEPT !.op = "construct", !.target = name]
        /\ UNCHANGED heap
        /\ UNCHANGED <<dvars, fvars, pvars, cvars, tvars>>

\* name.allocate(BlockLength)
Allocate ==
    \E name \in BufferNames :
        /\ buffers[name].alive
        /\ Len(heap) < MaxBlocks
        /\ LET a == Buffer_allocate(heap, buffers[name], BlockLength, 0)
           IN  /\ heap' = a.heap
               /\ buffers' = [buffers EXCEPT ![name] = a.self]
               /\ be' = [NoBufferEvent EXCEPT
                             !.op = "allocate", !.target = name,
                             !.length = BlockLength,
                             !.freedBorrowed =
                                 /\ a.heap /= malloc(heap, BlockLength, 0)
                                 /\ buffers[name].parent /= "none"]
        /\ UNCHANGED <<dvars, fvars, pvars, cvars, tvars>>

\* name.deallocate()
Deallocate ==
    \E name \in BufferNames :
        /\ buffers[name].alive
        /\ LET d == Buffer_deallocate(heap, buffers[name])
           IN  /\ heap' = d.heap
               /\ buffers' = [buffers EXCEPT ![name] = d.self]
               /\ be' = [NoBufferEvent EXCEPT
                             !.op = "deallocate", !.target = name,
                             !.freedBorrowed =
                                 /\ d.heap /= heap
                                 /\ buffers[name].parent /= "none"]
        /\ UNCHANGED <<dvars, fvars, pvars, cvars, tvars>>

\* ~Buffer()
Destroy ==
    \E name \in BufferNames :
        /\ buffers[name].alive
        /\ LET d == Buffer_deallocate(heap, buffers[name])
           IN  /\ heap' = d.heap
               /\ buffers' = [buffers EXCEPT
                                  ![name] = [FreshBuffer EXCEPT
                                                !.alive = FALSE]]
               /\ be' = [NoBufferEvent EXCEPT
                             !.op = "destroy", !.target = name,
                             !.freedBorrowed =
                                 /\ d.heap /= heap
                                 /\ buffers[name].parent /= "none"]
        /\ UNCHANGED <<dvars, fvars, pvars, cvars, tvars>>

\* name.fromParent(&parent, offset, clip)
FromParent ==
    \E name \in ViewNames, parentName \in BufferNames,
       offset \in Offsets, clip \in Clips :
        /\ name /= parentName
        /\ buffers[name].alive
        /\ buffers[parentName].alive
        /\ LET parent == buffers[parentName]
               f == Buffer_fromParent(buffers[name], parentName, parent,
                                      offset, clip)
           IN  /\ buffers' = [buffers EXCEPT ![name] = f.self]
               /\ be' = [NoBufferEvent EXCEPT
                             !.op = "fromParent", !.target = name,
                             !.parent = parentName, !.offset = offset,
                             !.clip = clip,
                             !.parentLength = Buffer_length(parent),
                             !.error = f.error,
                             !.lengthInclude =
                                 length_include(
                                     fromParent_include(parent, offset,
                                                        clip))]
        /\ UNCHANGED heap
        /\ UNCHANGED <<dvars, fvars, pvars, cvars, tvars>>

\* Buffer subbuffer(&parent, offset, clip), parent being itself a view: what
\* SyndesiID(Buffer*) and buildAddressingBuffer do for every chained segment
SubViewOfView ==
    \E parentName \in ViewNames, offset \in Offsets, clip \in Clips :
        /\ buffers[parentName].alive
        /\ ~buffers[parentName].isparent
        /\ buffers[parentName].parent /= "none"
        /\ be' = [NoBufferEvent EXCEPT
                      !.op = "nested", !.parent = parentName,
                      !.offset = offset, !.clip = clip,
                      !.parentLength = Buffer_length(buffers[parentName]),
                      !.view = Buffer_fromParent(FreshBuffer, parentName,
                                                 buffers[parentName], offset,
                                                 clip).self]
        /\ UNCHANGED <<heap, buffers>>
        /\ UNCHANGED <<dvars, fvars, pvars, cvars, tvars>>

\* name.fromBuffer(chars, BlockLength)
FromBuffer ==
    \E name \in BufferNames :
        /\ buffers[name].alive
        /\ Len(heap) < MaxBlocks
        /\ LET chars == [k \in 1..BlockLength |-> 1]
               a == Buffer_fromBuffer(heap, buffers[name], chars, 0)
           IN  /\ heap' = a.heap
               /\ buffers' = [buffers EXCEPT ![name] = a.self]
               /\ be' = [NoBufferEvent EXCEPT
                             !.op = "fromBuffer", !.target = name,
                             !.length = BlockLength]
        /\ UNCHANGED <<dvars, fvars, pvars, cvars, tvars>>

\* name = other ; other's bytes are in storage the assignment does not
\* release
CopyAssign ==
    \E name \in BufferNames, otherName \in BufferNames :
        /\ name /= otherName
        /\ buffers[name].alive
        /\ buffers[otherName].alive
        /\ Len(heap) < MaxBlocks
        /\ Readable(Buffer_deallocate(heap, buffers[name]).heap,
                    buffers[otherName], Buffer_length(buffers[otherName]))
        /\ LET a == Buffer_copyAssign(heap, buffers[name],
                                      buffers[otherName], 0)
           IN  /\ heap' = a.heap
               /\ buffers' = [buffers EXCEPT ![name] = a.self]
               /\ be' = [NoBufferEvent EXCEPT
                             !.op = "assign", !.target = name,
                             !.parent = otherName,
                             !.length = Buffer_length(buffers[otherName])]
        /\ UNCHANGED <<dvars, fvars, pvars, cvars, tvars>>

\* TRUE when nothing was stored in the block since it was filled
Untouched(block) == \A k \in 1..Len(block) : block[k] /= ByteRange - 1

\* name[index] = value, index below name.length(), the first time something
\* is stored in the block
WriteByte ==
    \E name \in BufferNames, index \in 0..(BlockLength - 1) :
        /\ buffers[name].alive
        /\ index < Buffer_length(buffers[name])
        /\ Readable(heap, buffers[name], index + 1)
        /\ Untouched(heap[buffers[name]._data].bytes)
        /\ LET value == ByteRange - 1
           IN  /\ heap' = [heap EXCEPT ![buffers[name]._data].bytes =
                               Poke(@, buffers[name]._offset + index,
                                    <<value>>)]
               /\ be' = [NoBufferEvent EXCEPT
                             !.op = "write", !.target = name,
                             !.index = index, !.value = value]
        /\ UNCHANGED buffers
        /\ UNCHANGED <<dvars, fvars, pvars, cvars, tvars>>

BufferNext ==
    \/ Construct
    \/ Allocate
    \/ Deallocate
    \/ Destroy
    \/ FromParent
    \/ SubViewOfView
    \/ FromBuffer
    \/ CopyAssign
    \/ WriteByte

BufferSpec == Init /\ [][BufferNext]_vars

----------------------------------------------------------------------------
(* Network : two callbacks on two threads, one devicesList *)

\* the entries pending when the two calls start
MaxConcPending == 2

\* the calls two threads make at the same time: thread 1 is in
\* controllerDataAvailable, thread 2 in controllerDataAvailable or request
ThreadCalls(t) ==
    {[op |-> "data", id |-> id, Nwritten |-> 0] : id \in SourceIDs}
    \cup
    IF t = 2
    THEN {[op |-> "request", id |-> c[1], Nwritten |-> c[2]] :
            c \in RequestIDs \X UNION {WriteResults(l) : l \in FrameLengths}}
    ELSE {}

\* a request that returned before the two calls start
ConcPending ==
    \E id \in RequestIDs, length \in FrameLengths :
        /\ \A t \in Threads : thr[t].pc = "idle"
        /\ Len(clist) < MaxConcPending
        /\ LET r == request(TRUE, default_syndesi_port, clist, id, length,
                            length)
           IN  /\ r.output
               /\ clist' = r.devicesList
        /\ UNCHANGED <<ccur, thr, cstart>>
        /\ UNCHANGED <<dvars, fvars, pvars, bvars, tvars>>

\* the two threads enter their calls
ConcBegin ==
    \E c1 \in ThreadCalls(1), c2 \in ThreadCalls(2) :
        /\ \A t \in Threads : thr[t].pc = "idle"
        /\ thr' = [t \in Threads |->
                     LET c == IF t = 1 THEN c1 ELSE c2
                     IN  [IdleThread EXCEPT !.pc = "start", !.op = c.op,
                                            !.id = c.id,
                                            !.Nwritten = c.Nwritten]]
        /\ cstart' = clist
        /\ UNCHANGED <<clist, ccur>>
        /\ UNCHANGED <<dvars, fvars, pvars, bvars, tvars>>

\* controllerDataAvailable : devicesList.moveToStart() and the test of
\* getLength()
MoveToStart ==
    \E t \in Threads :
        /\ thr[t].pc = "start"
        /\ thr[t].op = "data"
        /\ IF Len(clist) > 0
           THEN /\ ccur' = 1
                /\ thr' = [thr EXCEPT ![t].pc = "while"]
           ELSE /\ ccur' = NoCurrent
                /\ thr' = [thr EXCEPT ![t].pc = "if",
                                      ![t].deviceFound = FALSE]
        /\ UNCHANGED <<clist, cstart>>
        /\ UNCHANGED <<dvars, fvars, pvars, bvars, tvars>>

\* controllerDataAvailable : the condition of the while loop,
\* devicesList.getCurrent() == deviceID ; without a current element the
\* value read is undefined
WhileTest ==
    \E t \in Threads, undefined \in BOOLEAN :
        /\ thr[t].pc = "while"
        /\ LET equal == IF ccur = NoCurrent THEN undefined
                        ELSE IDEquals(clist[ccur], thr[t].id)
           IN  /\ ccur /= NoCurrent => undefined
               /\ thr' = [thr EXCEPT ![t].pc = IF equal THEN "next"
                                                ELSE "if"]
        /\ UNCHANGED <<clist, ccur, cstart>>
        /\ UNCHANGED <<dvars, fvars, pvars, bvars, tvars>>

\* controllerDataAvailable : the body of the while loop, devicesList.next()
WhileNext ==
    \E t \in Threads :
        /\ thr[t].pc = "next"
        /\ IF ccur /= NoCurrent /\ ListHasNext(clist, ccur)
           THEN /\ ccur' = ccur + 1
                /\ thr' = [thr EXCEPT ![t].pc = "while"]
           ELSE /\ ccur' = ccur
                /\ thr' = [thr EXCEPT ![t].pc = "if",
                                      ![t].deviceFound = FALSE]
        /\ UNCHANGED <<clist, cstart>>
        /\ UNCHANGED <<dvars, fvars, pvars, bvars, tvars>>

\* controllerDataAvailable : if (deviceFound), with DeleteCurrent and
\* confirm, or indication ; where the cursor is after DeleteCurrent is not
\* known, and without a current element what DeleteCurrent removes is
\* undefined
Classify ==
    \E t \in Threads :
        /\ thr[t].pc = "if"
        /\ IF thr[t].deviceFound
           THEN /\ thr' = [thr EXCEPT ![t].pc = "done",
                                      ![t].class = "confirm"]
                /\ \/ /\ ccur /= NoCurrent
                      /\ clist' = DeleteCurrent(clist, ccur)
                   \/ /\ ccur = NoCurrent
                      /\ \/ clist' = clist
                         \/ \E k \in 1..Len(clist) :
                                clist' = DeleteCurrent(clist, k)
                /\ ccur' \in 0..Len(clist')
           ELSE /\ thr' = [thr EXCEPT ![t].pc = "done",
                                      ![t].class = "indication"]
                /\ UNCHANGED <<clist, ccur>>
        /\ UNCHANGED cstart
        /\ UNCHANGED <<dvars, fvars, pvars, bvars, tvars>>

\* Network::request on its thread
ThreadRequest ==
    \E t \in Threads, length \in FrameLengths :
        /\ thr[t].pc = "start"
        /\ thr[t].op = "request"
        /\ thr[t].Nwritten \in WriteResults(length)
        /\ LET r == request(TRUE, default_syndesi_port, clist, thr[t].id,
                            length, thr[t].Nwritten)
           IN  /\ clist' = r.devicesList
               /\ thr' = [thr EXCEPT ![t].pc = "done",
                              ![t].class = IF r.output THEN "sent"
                                           ELSE "failed"]
        /\ UNCHANGED <<ccur, cstart>>
        /\ UNCHANGED <<dvars, fvars, pvars, bvars, tvars>>

ConcNext ==
    \/ ConcPending
    \/ ConcBegin
    \/ MoveToStart
    \/ WhileTest
    \/ WhileNext
    \/ Classify
    \/ ThreadRequest

ConcSpec == Init /\ [][ConcNext]_vars

\* one call run alone on the list : the list afterwards and the
\* classification
SerialCall(list, c) ==
    IF c.op = "data"
    THEN LET found == FindDevice(list, c.id)
         IN  IF found.deviceFound
             THEN [list |-> DeleteCurrent(list, found.cur),
                   class |-> "confirm"]
             ELSE [list |-> list, class |-> "indication"]
    ELSE LET r == request(TRUE, default_syndesi_port, list, c.id,
                          CHOOSE l \in FrameLengths : TRUE, c.Nwritten)
         IN  [list |-> r.devicesList,
              class |-> IF r.output THEN "sent" ELSE "failed"]

\* the calls of the two threads run one after the other, a first
SerialOrder(list, a, b) ==
    LET first == SerialCall(list, thr[a])
        second == SerialCall(first.list, thr[b])
    IN  [list |-> second.list,
         class |-> [t \in Threads |-> IF t = a THEN first.class
                                      ELSE second.class]]

----------------------------------------------------------------------------
(* The TCP delayer of the tests : one connection *)

\* tcp_client_thread : a payload was received and parsed, the thread of one
\* more echo is started and detached
ScheduleEcho ==
    \E j \in Echoes :
        /\ csockOpen
        /\ echo[j].at = "none"
        /\ \A i \in 1..(j - 1) : echo[i].at /= "none"
        /\ echo' = [echo EXCEPT ![j].at = "sleeping"]
        /\ UNCHANGED <<csockOpen, wmutex>>
        /\ UNCHANGED <<dvars, fvars, pvars, bvars, cvars>>

\* tcp_client_thread : recv returns 0 or less, the loop is left and the
\* socket is closed
CloseSocket ==
    /\ csockOpen
    /\ csockOpen' = FALSE
    /\ UNCHANGED <<echo, wmutex>>
    /\ UNCHANGED <<dvars, fvars, pvars, bvars, cvars>>

\* schedule_tcp_echo : the delay is over and the lock_guard takes wmutex
EchoLock ==
    \E j \in Echoes :
        /\ echo[j].at = "sleeping"
        /\ wmutex = 0
        /\ wmutex' = j
        /\ echo' = [echo EXCEPT ![j].at = "locked"]
        /\ UNCHANGED csockOpen
        /\ UNCHANGED <<dvars, fvars, pvars, bvars, cvars>>

\* schedule_tcp_echo : send(job.sock, ...) ; sentOpen tells whether the
\* socket was still open
EchoSend ==
    \E j \in Echoes :
        /\ echo[j].at = "locked"
        /\ echo' = [echo EXCEPT ![j] = [at |-> "sent", sentOpen |-> csockOpen]]
        /\ UNCHANGED <<csockOpen, wmutex>>
        /\ UNCHANGED <<dvars, fvars, pvars, bvars, cvars>>

\* schedule_tcp_echo returns : the lock_guard releases wmutex
EchoUnlock ==
    \E j \in Echoes :
        /\ echo[j].at = "sent"
        /\ wmutex' = 0
        /\ echo' = [echo EXCEPT ![j].at = "done"]
        /\ UNCHANGED csockOpen
        /\ UNCHANGED <<dvars, fvars, pvars, bvars, cvars>>

DelayerNext ==
    \/ ScheduleEcho
    \/ CloseSocket
    \/ EchoLock
    \/ EchoSend
    \/ EchoUnlock

DelayerSpec == Init /\ [][DelayerNext]_vars

----------------------------------------------------------------------------
(* Vocabulary of the properties *)

IsData == ev.op = "data"
IsConfirm == IsData /\ ev.class = "confirm"
IsIndication == IsData /\ ev.class = "indication"
IsRequest == ev.op = "request"

\* positions of the pending list, as it was before the inbound frame, whose
\* entry equals the source identifier
Matches == {k \in 1..Len(ev.listBefore) : IDEquals(ev.listBefore[k], ev.id)}

FirstMatch == CHOOSE k \in Matches : \A j \in Matches : k <= j

\* a sequence without its k-th element
RemoveAt(seq, k) == SubSeq(seq, 1, k - 1) \o SubSeq(seq, k + 1, Len(seq))

\* the interpreters called, in the order of the calls
Called == [k \in 1..Len(ev.calls) |-> ev.calls[k].interpreter]

\* the attached interpreters that may be offered a frame, in attach order:
\* an Error interpreter only when it is a reply with the error flag set
RECURSIVE Offered(_, _)
Offered(seq, withError) ==
    IF seq = <<>> THEN <<>>
    ELSE IF InterpreterType[Head(seq)] = "ERROR" /\ ~withError
         THEN Offered(Tail(seq), withError)
         ELSE <<Head(seq)>> \o Offered(Tail(seq), withError)

\* a sequence of interpreters cut after the first that takes the frame
RECURSIVE UpToFirstTaker(_, _, _)
UpToFirstTaker(seq, isRequest, claimed) ==
    IF seq = <<>> THEN <<>>
    ELSE IF (IF isRequest THEN parseRequest(Head(seq), claimed) /= NULL
             ELSE parseReply(Head(seq), claimed))
         THEN <<Head(seq)>>
         ELSE <<Head(seq)>> \o UpToFirstTaker(Tail(seq), isRequest, claimed)

----------------------------------------------------------------------------
(* Properties *)

\* C1: an inbound frame is classified as Confirm exactly when the
\* pending-reply list holds an entry equal to its source identifier, and as
\* Indication otherwise.
C1_ConfirmIffPending ==
    IsData => (ev.class = "confirm" <=> Matches /= {})
           /\ (ev.class = "indication" <=> Matches = {})

\* C2: a frame classified as Confirm removes exactly the first entry equal
\* to its source identifier; the other entries keep their order.
C2_FirstMatchRemoved ==
    IsConfirm => /\ Matches /= {}
                 /\ devicesList = RemoveAt(ev.listBefore, FirstMatch)

\* C3: request returns true exactly when the write returned the frame
\* length; on true the destination identifier is appended at the tail, on
\* false the pending-reply list is unchanged.
C3_RequestAppendsDestination ==
    IsRequest =>
        /\ ev.output <=> (Len(ev.writes) = 1 /\ ev.Nwritten = ev.length)
        /\ ev.output =>
              /\ Len(devicesList) = Len(ev.listBefore) + 1
              /\ SubSeq(devicesList, 1, Len(ev.listBefore)) = ev.listBefore
              /\ IDEquals(devicesList[Len(devicesList)], ev.idAfter)
        /\ ~ev.output => devicesList = ev.listBefore

\* C4: when a successful request to D is followed at once by an inbound
\* frame whose source is D (same address, the port the frame was sent to),
\* the frame is classified as Confirm and the pending-reply list is again
\* what it was before the request.
C4_RequestThenReply ==
    [][(/\ IsRequest
        /\ ev.output
        /\ ev'.op = "data"
        /\ IDEquals(ev'.id, ev.idAfter))
       => (/\ ev'.class = "confirm"
           /\ devicesList' = ev.listBefore)]_vars

\* C5: a non-error frame classified as Indication for which no parseRequest
\* returned a payload is answered by exactly one frame handed to
\* Network::response, an error frame carrying NO_INTERPETER addressed to the
\* source of the inbound frame.
C5_NoInterpreterReply ==
    (/\ IsIndication
     /\ ~ev.frame.error
     /\ \A k \in 1..Len(ev.calls) : ~ev.calls[k].result)
    => ev.responses = <<ErrorFrame(ev.id, NO_INTERPETER)>>

\* C5, its case: an attached interpreter was offered a request and declined
C5_Witness ==
    /\ IsIndication
    /\ ~ev.frame.error
    /\ Len(ev.calls) > 0
    /\ \A k \in 1..Len(ev.calls) : ~ev.calls[k].result
    /\ ev.responses = <<ErrorFrame(ev.id, NO_INTERPETER)>>

\* C6: indication offers the request to the attached interpreters other
\* than the Error kind in attach order, stops at the first that returns a
\* payload, which makes the reply, and never calls an Error interpreter.
C6_RequestOfferedInAttachOrder ==
    (IsIndication /\ ~ev.frame.error) =>
        /\ Called = UpToFirstTaker(Offered(attached, FALSE), TRUE,
                                   ev.frame.claimed)
        /\ \A k \in 1..Len(ev.calls) :
              /\ ev.calls[k].fn = "parseRequest"
              /\ InterpreterType[ev.calls[k].interpreter] /= "ERROR"
              /\ ev.calls[k].result =>
                    /\ k = Len(ev.calls)
                    /\ ev.responses =
                          <<PayloadFrame(ev.id, ev.calls[k].interpreter)>>

\* C7: each operator<< appends the new interpreter at the tail of the chain
\* and keeps the interpreters attached before it.
C7_AttachAppendsAtTail ==
    [][ev'.op = "attach"
       => Chain(first_interpreter', next')
            = Append(Chain(first_interpreter, next),
                     attached'[Len(attached')])]_vars

\* C8: indication and confirm leave the interpreter chain as it was.
C8_DispatchKeepsChain ==
    IsData => Chain(first_interpreter, next) = Chain(ev.firstBefore, next)

\* C9: confirm offers the reply to the interpreters in attach order and the
\* first whose parseReply returns true ends the scan, so at most one
\* interpreter consumes a reply.
C9_ReplyOfferedInAttachOrder ==
    IsConfirm =>
        /\ Called = UpToFirstTaker(Offered(attached, ev.frame.error), FALSE,
                                   ev.frame.claimed)
        /\ \A k \in 1..Len(ev.calls) :
              ev.calls[k].result => k = Len(ev.calls)

\* C10: for a frame with the error flag classified as Confirm, the Error
\* interpreter's parseReply is called before that of any other attached
\* interpreter, whatever the attach order.
C10_ErrorInterpreterFirst ==
    (/\ IsConfirm
     /\ ev.frame.error
     /\ \E k \in 1..Len(attached) : InterpreterType[attached[k]] = "ERROR")
    => /\ Len(ev.calls) > 0
       /\ InterpreterType[ev.calls[1].interpreter] = "ERROR"

\* C11: every inbound frame classified as Indication is answered by exactly
\* one frame handed to Network::response, addressed to the source of the
\* inbound frame, and the pending list stays as it was; a frame classified
\* as Confirm hands nothing to Network::response and writes nothing to the
\* transport, whether or not an interpreter accepted the reply.
C11_IndicationAnsweredConfirmSilent ==
    /\ IsIndication => (/\ Len(ev.responses) = 1
                        /\ ev.responses[1].id = ev.id
                        /\ devicesList = ev.listBefore)
    /\ IsConfirm => (ev.responses = <<>> /\ ev.writes = <<>>)

\* C11, its cases: an indication answered through a registered controller
\* with pending requests outstanding
C11_Witness ==
    /\ IsIndication
    /\ Len(ev.listBefore) > 0
    /\ Len(ev.writes) = 1
    /\ ev.writes[1].id = ev.id

\* C12: an inbound frame with the error flag set that is classified as
\* Indication is answered by an error frame carrying INVALID_PAYLOAD, and
\* parseRequest is called on no interpreter.
C12_ErrorRequestRejected ==
    (IsIndication /\ ev.frame.error)
    => (/\ ev.responses = <<ErrorFrame(ev.id, INVALID_PAYLOAD)>>
        /\ ev.calls = <<>>)

\* C12, its case: an error frame arrives as a request while an interpreter
\* that would have taken it is attached
C12_Witness ==
    /\ IsIndication
    /\ ev.frame.error
    /\ ev.firstBefore /= NULL
    /\ InterpreterType[ev.firstBefore] = "OTHER"
    /\ ev.firstBefore \in ev.frame.claimed
    /\ ev.responses = <<ErrorFrame(ev.id, INVALID_PAYLOAD)>>

----------------------------------------------------------------------------
(* The vocabulary of the codec claims *)

IsRead == fe.op = "read"
IsReadCpp == IsRead /\ received.snapshot = "Cpp"

\* the chained segments as they are to be serialized: every segment but the
\* last with the follow flag
RECURSIVE SerializedChain(_)
SerializedChain(segments) ==
    IF segments = <<>> THEN <<>>
    ELSE WireSegment(Head(segments).address_type, Len(segments) > 1,
                     Head(segments).descriptor[1])
             \o SerializedChain(Tail(segments))

\* the segments a serialized chain holds
RECURSIVE WireChainSegments(_)
WireChainSegments(bytes) ==
    LET header == SdidHeaderFields(bytes[1])
        size == addressSize(header.address_type)
        this == [address_type |-> header.address_type,
                 descriptor |-> SubSeq(bytes, 2, size + 1)]
    IN  IF header.follow
        THEN <<this>> \o WireChainSegments(SubSeq(bytes, size + 2, Len(bytes)))
        ELSE <<this>>

\* the built error frame has its flags and a length of len bytes
ErrorFrameBuilt(len) ==
    onWire.kind = "error"
    => LET header == NetworkHeaderFields(onWire.bytes[1])
       IN  /\ header.error
           /\ ~header.follow
           /\ header.routing = (reroutes(onWire.chain) > 0)
           /\ Len(onWire.bytes) = len

\* the error frame read back has the error flag and the code it was built with
ErrorFrameReadBack ==
    (IsRead /\ onWire.kind = "error")
    => /\ NetworkHeaderFields(received.networkHeader).error
       /\ ntoh(SubSeq(received.buffer, PayloadOffset(received) + 1,
                      PayloadOffset(received) + errorCode_size),
               errorCode_size) = onWire.errorCode

\* C13: a payload frame built by Frame(id, payload) and read back from the
\* transport has a payload view, getPayloadLength() bytes at
\* getPayloadBuffer(), equal byte for byte to the payload's bytes, and a
\* routing flag equal to (id.reroutes() > 0).
C13_FrameRoundTrip ==
    (IsReadCpp /\ onWire.kind = "payload")
    => /\ PayloadView(received) = onWire.payload
       /\ NetworkHeaderFields(received.networkHeader).routing
              = (reroutes(onWire.chain) > 0)

\* C14: the buffer of a payload frame is header_size bytes, the serialized
\* chain and the payload bytes, in that order and nothing more: byte 0 has
\* error and follow clear and routing set iff reroutes() > 0, bytes 1-2 hold
\* the size of the chain plus the payload length.
C14_PayloadFrameLayout ==
    onWire.kind = "payload"
    => LET segments == Segments(onWire.chain)
           total_addressing_size == SerializedSize(segments)
           header == NetworkHeaderFields(onWire.bytes[1])
       IN  /\ Len(onWire.bytes)
                  = header_size + total_addressing_size + Len(onWire.payload)
           /\ ~header.error
           /\ ~header.follow
           /\ header.routing = (reroutes(onWire.chain) > 0)
           /\ ntoh(SubSeq(onWire.bytes, networkHeader_size + 1, header_size),
                   payloadLength_size)
                  = total_addressing_size + Len(onWire.payload)
           /\ SubSeq(onWire.bytes, header_size + 1,
                     header_size + total_addressing_size)
                  = SerializedChain(segments)
           /\ SubSeq(onWire.bytes, header_size + total_addressing_size + 1,
                     Len(onWire.bytes)) = onWire.payload

\* C15 as stated: an error frame built by Frame(id, c) has error set, follow
\* clear, routing set iff reroutes() > 0 and a length of header_size + 2
\* bytes, and read back it has error set and the code c.
C15_ErrorFrameRoundTrip ==
    ErrorFrameBuilt(header_size + errorCode_size) /\ ErrorFrameReadBack

\* C15 amended: an error frame built by Frame(id, c) has error set, follow
\* clear, routing set iff reroutes() > 0 and a length of header_size bytes
\* (the network header and the 2-byte code), and read back it has error set
\* and the code c.
C15_ErrorFrameHeaderSized ==
    ErrorFrameBuilt(header_size) /\ ErrorFrameReadBack

\* C15, its case: an error frame carrying NO_INTERPETER was built and read
\* back
C15_Witness ==
    /\ IsRead
    /\ onWire.kind = "error"
    /\ onWire.errorCode = NO_INTERPETER
    /\ Len(onWire.bytes) = header_size
    /\ NetworkHeaderFields(received.networkHeader).error

\* C16: reading a frame first reads header_size bytes; with the error bit of
\* byte 0 set nothing more is read; otherwise exactly one more read follows,
\* of 256 * byte 1 + byte 2 bytes.
C16_ReadsHeaderThenLength ==
    IsRead
    => IF NetworkHeaderFields(onWire.bytes[1]).error
       THEN received.reads = <<header_size>>
       ELSE received.reads
                = <<header_size, ByteRange * onWire.bytes[2] + onWire.bytes[3]>>

\* C17: when the frame read has the routing bit set, the chain at the start
\* of the region after the header is parsed into the frame's identifier and
\* the payload view is what follows the chain.
C17_RoutedChainParsed ==
    (/\ IsReadCpp
     /\ NetworkHeaderFields(received.networkHeader).routing
     /\ ~NetworkHeaderFields(received.networkHeader).error)
    => LET region == SubSeq(onWire.bytes, header_size + 1, Len(onWire.bytes))
           segments == WireChainSegments(region)
       IN  /\ Segments(sdid) = segments
           /\ PayloadView(received)
                  = SubSeq(region, SerializedSize(segments) + 1, Len(region))

C19_ChainRoundTrip ==
    fe.op = "roundTrip" => fe.parsed = fe.original

\* C20: reroutes() is the number of chained segments: 0 on a fresh
\* identifier, k after k calls of append.
C20_ReroutesCountsAppends ==
    ~idHist.parsed => reroutes(sdid) = idHist.appends

\* the bytes of a block that differ from what the storage held before
WrittenCount(block, garbage) ==
    Cardinality({i \in 1..Len(block) : block[i] /= garbage})

\* C21: getTotalAdressingSize() is the sum, over the chained segments, of one
\* header byte plus the address size of the segment, and it is the number of
\* bytes buildAddressingBuffer writes for the identifier.
C21_TotalAddressingSize ==
    /\ getTotalAdressingSize(sdid) = SerializedSize(Segments(sdid))
    /\ (fe.op = "roundTrip" /\ fe.garbage = ByteRange - 1)
       => getTotalAdressingSize(sdid) = WrittenCount(fe.written, fe.garbage)

\* C22: in every chain made by append calls or by parsing, the follow flag
\* of a chained segment is set exactly when another segment comes after it.
C22_FollowIffNext ==
    \A k \in 2..Len(sdid) : sdid[k].follow <=> (k < Len(sdid))

IsDottedQuad ==
    /\ Len(pe.fields) = IPv4_size
    /\ \A i \in 1..Len(pe.fields) : pe.fields[i] < ByteRange
    /\ pe.trailing = <<>>

IsValidPort == pe.portValue >= 1 /\ pe.portValue < UShortRange

\* C24: parse of 'a.b.c.d:p' with octets in 0..255 and 1 <= p <= 65535
\* succeeds and sets the type IPv4, the bytes a, b, c, d and the port p;
\* without ':p' it succeeds with the same bytes and the port of the settings.
C24_ParseDottedQuad ==
    (pe.op = "parse" /\ IsDottedQuad
     /\ (pe.suffix = "none" \/ (pe.suffix = "port" /\ IsValidPort)))
    => /\ pe.result
       /\ pid.address_type = "IPV4"
       /\ pid.descriptor = pe.fields
       /\ pid.port = IF pe.suffix = "port" THEN pe.portValue ELSE pe.settings

\* a text without a port was parsed after Settings::setIPPort
C24_Witness ==
    /\ pe.op = "parse"
    /\ IsDottedQuad
    /\ pe.suffix = "none"
    /\ pe.settings = CustomPort
    /\ pid.port = CustomPort
    /\ pe.before.descriptor /= pid.descriptor

\* C25: parse returns false for every text that is not a dotted quad of four
\* octets in 0..255 optionally followed by ':port', and then leaves the
\* address bytes, the address type and the port of the identifier unchanged.
C25_ParseRejectsOtherTexts ==
    (pe.op = "parse"
     /\ ~(IsDottedQuad
          /\ (pe.suffix = "none" \/ (pe.suffix = "port" /\ IsValidPort))))
    => /\ ~pe.result
       /\ pid = pe.before

\* the smaller of two numbers
Min(a, b) == IF a < b THEN a ELSE b

\* the last operation made a sub-view at an offset inside the parent
SubViewMade == be.op = "fromParent" /\ be.offset <= be.parentLength

\* C26: a sub-view made at offset o <= L of a buffer of length L with clip
\* length c reports the length L - o when c is 0 and min(L - o, c)
\* otherwise, in each version of the Buffer class.
C26_SubViewLength ==
    SubViewMade
    => LET expected == IF be.clip = 0
                       THEN be.parentLength - be.offset
                       ELSE Min(be.parentLength - be.offset, be.clip)
       IN  /\ Buffer_length(buffers[be.target]) = expected
           /\ be.lengthInclude = expected

\* C27: making a sub-view at an offset greater than the length of the parent
\* is reported to the caller as a violation; it never silently leaves a
\* zero-length or unset view.
C27_OffsetBeyondParentReported ==
    (be.op = "fromParent" /\ be.offset > be.parentLength) => be.error

\* the views made from the owning buffer called name that still look at
\* the block it owns
ViewsOf(name) ==
    {v \in BufferNames :
        /\ buffers[v].alive
        /\ ~buffers[v].isparent
        /\ buffers[v].parent = name
        /\ buffers[v]._data = buffers[name]._data}

Owning(name) ==
    /\ buffers[name].alive
    /\ buffers[name].isparent
    /\ buffers[name]._data /= nullptr

\* C28: a sub-view at offset o of an owning buffer B shares the bytes of B:
\* the byte at index i of the view is the byte at index o + i of B, whichever
\* of the two it was written through.
C28_SubViewAliasesParent ==
    \A name \in BufferNames :
        Owning(name)
        => \A v \in ViewsOf(name) :
               \A i \in 0..(Buffer_length(buffers[v]) - 1) :
                   /\ buffers[v].at + i < Buffer_length(buffers[name])
                   /\ Buffer_read(heap, buffers[v], i)
                      = Buffer_read(heap, buffers[name],
                                    buffers[v].at + i)
                   /\ Buffer_read(heap, buffers[v], i)
                      = heap[buffers[name]._data].bytes[
                            buffers[v].at + i + 1]

\* a byte was written through a view that starts after the first byte of
\* its parent, and the parent reads it
C28_Witness ==
    /\ be.op = "write"
    /\ \E name \in BufferNames :
        /\ Owning(name)
        /\ be.target \in ViewsOf(name)
        /\ buffers[be.target].at > 0
        /\ Buffer_read(heap, buffers[name],
                       buffers[be.target].at + be.index) = be.value
        /\ Buffer_read(heap, buffers[name], 0) /= be.value

\* C29: no buffer gives access to storage that was released: once the
\* parent is deallocated, allocated again or destroyed, a sub-view made from
\* it earlier no longer reads its block.
C29_NoAccessToReleasedStorage ==
    \A name \in BufferNames :
        (buffers[name].alive /\ buffers[name]._data /= nullptr)
        => heap[buffers[name]._data].frees = 0

\* C30: allocate(n) leaves the buffer owning n bytes at offset 0, every
\* block is released exactly once by the buffer that owns it (a block that
\* is not released has an owner that will release it), and a buffer never
\* releases storage it borrowed.
C30_EveryBlockReleasedOnce ==
    /\ be.op = "allocate"
       => /\ Owning(be.target)
          /\ buffers[be.target]._offset = 0
          /\ Buffer_length(buffers[be.target]) = be.length
          /\ Len(heap[buffers[be.target]._data].bytes) = be.length
          /\ heap[buffers[be.target]._data].frees = 0
    /\ \A p \in 1..Len(heap) :
        /\ heap[p].frees <= 1
        /\ heap[p].frees = 0
           => Cardinality({name \in BufferNames :
                              Owning(name) /\ buffers[name]._data = p}) = 1
    /\ ~be.freedBorrowed

\* C32: Network::request for an identifier whose address type is neither
\* IPv4 nor IPv6 returns false, makes no transport write and adds nothing to
\* the pending-reply list.
C32_OtherAddressTypeFails ==
    (IsRequest /\ ev.id.address_type \notin {"IPV4", "IPV6"})
    => /\ ~ev.output
       /\ ev.writes = <<>>
       /\ devicesList = ev.listBefore

\* such a request was made with a controller registered and a transport
\* that would have written the whole frame
C32_Witness ==
    /\ IsRequest
    /\ ev.id.address_type = "OTHER"
    /\ networkIPController
    /\ ev.Nwritten = ev.length
    /\ ~ev.output

\* C33: a transport failure (a short write, or no controller registered) is
\* reported as a failure to the caller of request() and to the caller of
\* response(), and each call makes at most one transport write.
C33_TransportFailureReported ==
    /\ Len(ev.writes) <= 1
    /\ (IsRequest /\ (ev.writes = <<>> \/ ev.Nwritten < ev.length))
       => ~ev.output
    /\ (IsIndication /\ ev.writes = <<>>) => ev.responseOutput = "failure"

\* C35: a copy of an identifier made with the copy constructor compares
\* equal to the original, whatever the port of the original, so the entry
\* the pending-reply list stores matches the identifier it was copied from.
C35_CopyComparesEqual ==
    IsRequest
    => /\ IDEquals(CopyID(ev.id), ev.id)
       /\ IDEquals(CopyID(ev.idAfter), ev.idAfter)

\* C36: Network::request writes to the port the destination identifier
\* carries and leaves the caller's identifier as it was before the call.
C36_RequestKeepsIdentifier ==
    IsRequest
    => /\ ev.idAfter = ev.id
       /\ \A k \in 1..Len(ev.writes) : ev.writes[k].id.port = ev.id.port

\* C38: in every payload frame built by Frame(id, payload) the 2-byte length
\* field holds the number of bytes that follow the header in the buffer of
\* the frame, also when that number is above 65535.
C38_LengthFieldIsRealSize ==
    onWire.kind = "payload"
    => ntoh(SubSeq(onWire.bytes, networkHeader_size + 1, header_size),
            payloadLength_size)
           = Len(onWire.bytes) - header_size

\* C31: when the allocation of its buffer fails, a Frame constructor stores
\* no header, length or payload byte through that buffer.
C31_NoStoreWithoutStorage ==
    fe.op = "noMemory" => \A k \in 1..Len(fe.stores) : ~fe.stores[k].null

\* the last operation took a sub-view, inside its range, of a view of the
\* owning buffer called name
NestedViewOf(name) ==
    /\ be.op = "nested"
    /\ Owning(name)
    /\ be.parent \in ViewsOf(name)
    /\ buffers[be.parent].at + be.offset <= Buffer_length(buffers[name])

\* C37: a sub-view taken at offset o2 of a sub-view taken at offset o1 of a
\* buffer B starts at byte o1 + o2 of B and, when neither view is clipped,
\* has the length B.length() - o1 - o2.
C37_SubViewsCompose ==
    \A name \in BufferNames :
        NestedViewOf(name)
        => /\ be.view._data = buffers[name]._data
           /\ be.view._offset = buffers[be.parent].at + be.offset
           /\ (be.clip = 0 /\ buffers[be.parent]._clipLength = 0)
              => Buffer_length(be.view)
                     = Buffer_length(buffers[name])
                           - buffers[be.parent].at - be.offset

\* C34: when controllerDataAvailable runs at the same time as another
\* controllerDataAvailable or as request, the classifications made and the
\* pending list at the end are those of the two calls run one after the
\* other, in one of the two orders.
C34_SerialOutcome ==
    (\A t \in Threads : thr[t].pc = "done")
        => \E a \in Threads, b \in Threads :
               /\ a /= b
               /\ SerialOrder(cstart, a, b) =
                      [list |-> clist,
                       class |-> [t \in Threads |-> thr[t].class]]

\* C39: no delayed echo is sent on the socket of a connection after the
\* client thread closed it, and two echoes of one connection are never
\* sending at the same time.
C39_NoEchoAfterClose ==
    /\ \A j \in Echoes : echo[j].at \in {"sent", "done"} => echo[j].sentOpen
    /\ Cardinality({j \in Echoes : echo[j].at \in {"locked", "sent"}}) <= 1

====
